---- MODULE Spec2Model ----
(***************************************************************************)
(* A model of the affiliate-product synchroniser: the two source adapters  *)
(* and the retriever (Core/product_retriever.py), the UnifiedProduct data  *)
(* model (Core/data_models.py), the orchestrator (Core/sync_orchestrator   *)
(* .py) and the catalog connector (Shopify/shopify_connector.py).          *)
(*                                                                         *)
(* Python strings are sequences of one-character strings, so that lower(), *)
(* substring search, float() parsing and SKU formatting are computed.      *)
(* A raw JSON value is a record [t, v]: t is its Python type ("absent" for *)
(* a key the dict does not hold, "null" for None, "str", "num", "obj") and *)
(* v its text (a number's decimal digits).                                 *)
(***************************************************************************)
EXTENDS Integers, Sequences, FiniteSets, TLC

VARIABLES
    rcall,              \* the retriever/adapter call under study and its result
    orchestrator,       \* the SyncOrchestrator's attributes
    shopify_connector,  \* the ShopifyConnector's attributes (present = not None)
    shopify,            \* the catalog sink: products, collections, collects, metafields
    brands_to_process,  \* run_full_sync's input list
    pc,                 \* where run_full_sync / run_sync_for_brand stands
    brand_idx,          \* position in brands_to_process
    brand_run,          \* run_sync_for_brand's locals for the current brand
    writes,             \* the write requests that reached the catalog sink
    history,            \* the brands run_full_sync has finished, with their outcome
    earlier_run,        \* the last brand run of an earlier call of run_full_sync
    request             \* the connector's _request_with_retry call under study

rvars == <<rcall>>
ovars == <<orchestrator, shopify_connector, shopify, brands_to_process, pc,
           brand_idx, brand_run, writes, history, earlier_run>>
cvars == <<request>>
vars == <<rcall, orchestrator, shopify_connector, shopify, brands_to_process, pc,
          brand_idx, brand_run, writes, history, earlier_run, request>>

-----------------------------------------------------------------------------
(* Bounds of the model *)

\* longest raw product list of one upstream response
MaxRaw == 2
\* largest target count (limit) handed to a retriever call
MaxLimit == 2
\* longest list of brands handed to run_full_sync
MaxBrands == 2

-----------------------------------------------------------------------------
(* Python values *)

Absent == [t |-> "absent", v |-> <<>>]
Null == [t |-> "null", v |-> <<>>]
Obj == [t |-> "obj", v |-> <<>>]
Str(s) == [t |-> "str", v |-> s]
Num(s) == [t |-> "num", v |-> s]

Digits == <<"0", "1", "2", "3", "4", "5", "6", "7", "8", "9">>
Letters == <<"a", "b", "c", "d", "e", "f", "g", "h", "i", "j", "k", "l", "m",
             "n", "o", "p", "q", "r", "s", "t", "u", "v", "w", "x", "y", "z">>
Caps == <<"A", "B", "C", "D", "E", "F", "G", "H", "I", "J", "K", "L", "M",
          "N", "O", "P", "Q", "R", "S", "T", "U", "V", "W", "X", "Y", "Z">>

IsDigit(c) == \E i \in DOMAIN Digits : Digits[i] = c
DigitVal(c) == (CHOOSE i \in DOMAIN Digits : Digits[i] = c) - 1

\* str.lower() and str.upper(), character by character
LowerChar(c) == IF \E i \in DOMAIN Caps : Caps[i] = c
                THEN Letters[CHOOSE i \in DOMAIN Caps : Caps[i] = c] ELSE c
UpperChar(c) == IF \E i \in DOMAIN Letters : Letters[i] = c
                THEN Caps[CHOOSE i \in DOMAIN Letters : Letters[i] = c] ELSE c
Lower(s) == [i \in 1..Len(s) |-> LowerChar(s[i])]
Upper(s) == [i \in 1..Len(s) |-> UpperChar(s[i])]

\* Python's "sub in s" on strings
Contains(sub, s) ==
    \E k \in 0..(Len(s) - Len(sub)) : SubSeq(s, k + 1, k + Len(sub)) = sub

StartsWith(s, prefix) ==
    Len(s) >= Len(prefix) /\ SubSeq(s, 1, Len(prefix)) = prefix

\* s.replace(a, b) for a one-character a and a string b
RECURSIVE ReplaceChar(_, _, _)
ReplaceChar(s, a, b) ==
    IF s = <<>> THEN <<>>
    ELSE (IF Head(s) = a THEN b ELSE <<Head(s)>>) \o ReplaceChar(Tail(s), a, b)

\* dict.get(key) and dict.get(key, default)
Get(x) == IF x.t = "absent" THEN Null ELSE x
GetDefault(x, d) == IF x.t = "absent" THEN d ELSE x

\* float(text): digits with at most one "." and at least one digit; the value in
\* hundredths (cents), the digits after the second decimal only tested for zero
RECURSIVE DigitsValue(_)
DigitsValue(s) ==
    IF s = <<>> THEN 0
    ELSE DigitsValue(SubSeq(s, 1, Len(s) - 1)) * 10 + DigitVal(s[Len(s)])

ParseFloat(s) ==
    LET dots == {i \in 1..Len(s) : s[i] = "."}
        ip == IF dots = {} THEN s
              ELSE SubSeq(s, 1, (CHOOSE i \in dots : TRUE) - 1)
        fp == IF dots = {} THEN <<>>
              ELSE SubSeq(s, (CHOOSE i \in dots : TRUE) + 1, Len(s))
        wellFormed == /\ Cardinality(dots) <= 1
                      /\ \A i \in 1..Len(s) : s[i] = "." \/ IsDigit(s[i])
                      /\ Len(ip) + Len(fp) >= 1
        frac2 == SubSeq(fp \o <<"0", "0">>, 1, 2)
    IN  IF wellFormed
        THEN [ok |-> TRUE, cents |-> DigitsValue(ip) * 100 + DigitsValue(frac2)]
        ELSE [ok |-> FALSE, cents |-> 0]

\* float(x) of a raw value: TypeError for None, ValueError for a bad string
PyFloat(x) ==
    IF x.t \in {"str", "num"} THEN ParseFloat(x.v) ELSE [ok |-> FALSE, cents |-> 0]

\* bool(x)
Truthy(x) ==
    CASE x.t = "str" -> x.v # <<>>
      [] x.t = "num" -> ~(PyFloat(x).ok /\ PyFloat(x).cents = 0)
      [] x.t = "obj" -> TRUE
      [] OTHER -> FALSE

\* str(x)
PyStr(x) == IF x.t \in {"str", "num"} THEN x.v ELSE <<"N", "o", "n", "e">>

-----------------------------------------------------------------------------
(* Core/data_models.py *)

T_cj == <<"c", "j">>
T_pepperjam == <<"p", "e", "p", "p", "e", "r", "j", "a", "m">>
T_in_stock == <<"i", "n", " ", "s", "t", "o", "c", "k">>
T_available == <<"a", "v", "a", "i", "l", "a", "b", "l", "e">>
T_NA == <<"N", "/", "A">>

\* the result of a call that may raise or return None: out holds zero or one value
Raised == [raised |-> TRUE, out |-> <<>>]
ReturnNone == [raised |-> FALSE, out |-> <<>>]
Return(x) == [raised |-> FALSE, out |-> <<x>>]

\* a sku that keeps the brand and the source as they are written
sku_as_written(brand_name, source_api, source_product_id) ==
    brand_name \o <<"-">> \o source_api \o <<"-">> \o source_product_id

\* the sku __post_init__ derives when none is supplied
DerivedSku(brand_name, source_api, source_product_id) ==
    LET brand_slug == ReplaceChar(ReplaceChar(Upper(brand_name), " ", <<"_">>), ".", <<>>)
        api_slug == Upper(source_api)
    IN  brand_slug \o <<"-">> \o api_slug \o <<"-">> \o source_product_id

\* UnifiedProduct(...) followed by __post_init__; brand_name is the raw value the
\* adapter passes (brand_name.upper() raises AttributeError unless it is a str)
UnifiedProduct(source_api, source_product_id, brand_name, source_advertiser_id, title, description, price, product_url, image_url, availability) ==
    IF brand_name.t # "str" THEN Raised
    ELSE Return([source_api |-> source_api,
                 source_product_id |-> source_product_id,
                 brand_name |-> brand_name.v,
                 source_advertiser_id |-> source_advertiser_id,
                 title |-> title,
                 description |-> description,
                 price |-> price,
                 product_url |-> product_url,
                 image_url |-> image_url,
                 sku |-> DerivedSku(brand_name.v, source_api, source_product_id),
                 availability |-> availability,
                 keywords_matched |-> <<>>,
                 shopify_product_id |-> 0])

-----------------------------------------------------------------------------
(* Core/product_retriever.py: the image check and the two source adapters *)

T_http == <<"h", "t", "t", "p", ":", "/", "/">>
T_https == <<"h", "t", "t", "p", "s", ":", "/", "/">>
T_feedonomics == <<"f", "e", "e", "d", "o", "n", "o", "m", "i", "c", "s", ".", "c", "o", "m">>
HttpUrl(rest) == Str(T_http \o rest)

\* the image URLs that answer 200 with an image of sufficient size (environment)
LiveImageUrls == {HttpUrl(<<"i">>)}

\* _is_valid_image_url: "true", "false" or "raise" (re.match on a non-string)
is_valid_image_url(url, skip_image_validation) ==
    IF skip_image_validation THEN "true"
    ELSE IF ~Truthy(url) THEN "false"
    ELSE IF url.t # "str" THEN "raise"
    ELSE IF ~(StartsWith(url.v, T_http) \/ StartsWith(url.v, T_https)) THEN "false"
    ELSE IF Contains(T_feedonomics, url.v) THEN "true"
    ELSE IF url \in LiveImageUrls THEN "true" ELSE "false"

\* _cj_product_to_unified: no try/except of its own, so a bad record raises
cj_product_to_unified(cj_product, brand_name, source_api_name, skip_image_validation) ==
    IF \E f \in {"link", "imageLink", "title"} : ~Truthy(Get(cj_product[f]))
    THEN ReturnNone
    ELSE IF GetDefault(cj_product.price, Obj).t # "obj"
    THEN Raised                                   \* price_info.get on None
    ELSE
    LET price_amount_str ==
            IF cj_product.price.t = "obj" THEN Get(cj_product.amount) ELSE Null
        amountKey ==                              \* price_info['amount']
            IF cj_product.price.t = "obj" THEN cj_product.amount ELSE Absent
        imageOk == is_valid_image_url(Get(cj_product.imageLink), skip_image_validation)
        availability_str == GetDefault(cj_product.availability, Str(T_in_stock))
    IN  IF price_amount_str = Str(<<"0", ".", "0", "0">>) THEN ReturnNone
        ELSE IF ~skip_image_validation /\ imageOk = "raise" THEN Raised
        ELSE IF ~skip_image_validation /\ imageOk = "false" THEN ReturnNone
        ELSE IF ~Truthy(Get(cj_product.advertiserId)) THEN ReturnNone
        ELSE IF ~Truthy(Get(cj_product.id)) THEN ReturnNone
        ELSE IF amountKey.t = "absent" THEN Raised          \* KeyError
        ELSE IF ~PyFloat(amountKey).ok THEN Raised          \* ValueError, TypeError
        ELSE IF availability_str.t # "str" THEN Raised      \* .lower() on None
        ELSE UnifiedProduct(source_api_name,
                            PyStr(Get(cj_product.id)),
                            GetDefault(cj_product.advertiserName, Str(brand_name)),
                            PyStr(Get(cj_product.advertiserId)),
                            GetDefault(cj_product.title, Str(T_NA)),
                            GetDefault(cj_product.description, Str(<<>>)),
                            PyFloat(amountKey).cents,
                            cj_product.link,
                            cj_product.imageLink,
                            Lower(availability_str.v) = T_in_stock)

\* the body of _pepperjam_product_to_unified's try block
pepperjam_try_body(pj_product, brand_name, program_id, skip_image_validation) ==
    LET price_str == Get(pj_product.price)
        buy_url == Get(pj_product.buy_url)
        imageOk == is_valid_image_url(Get(pj_product.image_url), skip_image_validation)
        availability_str == GetDefault(pj_product.stock_availability, Str(T_in_stock))
        is_available ==
            \/ Contains(T_in_stock, Lower(availability_str.v))
            \/ Contains(T_available, Lower(availability_str.v))
            \/ ~Truthy(availability_str)
    IN  IF ~Truthy(price_str) THEN ReturnNone
        ELSE IF ~PyFloat(price_str).ok THEN ReturnNone
        ELSE IF ~Truthy(buy_url) THEN ReturnNone
        ELSE IF ~Truthy(Get(pj_product.image_url)) THEN ReturnNone
        ELSE IF ~skip_image_validation /\ imageOk = "raise" THEN Raised
        ELSE IF ~skip_image_validation /\ imageOk = "false" THEN ReturnNone
        ELSE IF availability_str.t # "str" THEN Raised      \* .lower() on None
        ELSE UnifiedProduct(T_pepperjam,
                            PyStr(GetDefault(pj_product.id, Get(pj_product.name))),
                            GetDefault(pj_product.program_name, Str(brand_name)),
                            program_id,
                            GetDefault(pj_product.name, Str(T_NA)),
                            GetDefault(pj_product.description_long,
                                       GetDefault(pj_product.description_short, Str(<<>>))),
                            PyFloat(price_str).cents,
                            buy_url,
                            Get(pj_product.image_url),
                            is_available)

\* _pepperjam_product_to_unified: "except Exception" turns every raise into None
pepperjam_product_to_unified(pj_product, brand_name, program_id, skip_image_validation) ==
    LET r == pepperjam_try_body(pj_product, brand_name, program_id, skip_image_validation)
    IN  IF r.raised THEN ReturnNone ELSE r

-----------------------------------------------------------------------------
(* Core/product_retriever.py: fetch_cj_products *)

MAX_RAW_PRODUCTS_TO_SCAN_FROM_FEED == 1000

\* what a fetch gives its caller: raised, or the list out
FetchRaised(unified_products) == [raised |-> TRUE, out |-> unified_products]
FetchReturn(unified_products) == [raised |-> FALSE, out |-> unified_products]

\* the same for a fetch, with the number of raw records it handed to the adapter
ScanResult(raised, unified_products, handed) ==
    [raised |-> raised, out |-> unified_products, handed |-> handed]

\* the scan goes on whatever the number of records scanned
scan_never_capped(i, count, limit) == FALSE

\* "attempted_cj_products_count > MAX_RAW_PRODUCTS_TO_SCAN_FROM_FEED and count < limit"
scan_cap_reached(i, count, limit) == i > MAX_RAW_PRODUCTS_TO_SCAN_FROM_FEED /\ count < limit

\* the phrases of keywords_list found in the lower-cased title or description
matched_keywords(keywords_list, title, description) ==
    SelectSeq(keywords_list,
              LAMBDA phrase : \/ Contains(Lower(phrase), Lower(title))
                              \/ Contains(Lower(phrase), Lower(description)))

\* what one pass of the loop body leaves: stop is a break or a raise
ScanStep(stop, raised, unified_products, handed) ==
    [stop |-> stop, raised |-> raised, out |-> unified_products, handed |-> handed]

\* the body of "for cj_prod_data in products_list" for the i-th record
cj_scan_record(cj_prod_data, i, unified_products, handed, brand_name, keywords_list, limit, skip) ==
    IF scan_cap_reached(i, Len(unified_products), limit)
    THEN ScanStep(TRUE, FALSE, unified_products, handed)
    ELSE
    LET title == GetDefault(cj_prod_data.title, Str(<<>>))
        description == GetDefault(cj_prod_data.description, Str(<<>>))
        filtering == keywords_list # <<>>
        matched == IF filtering
                   THEN matched_keywords(keywords_list, title.v, description.v)
                   ELSE <<>>
        unified_prod == cj_product_to_unified(cj_prod_data, brand_name, T_cj, skip)
        appended == Append(unified_products,
                           [unified_prod.out[1] EXCEPT !.keywords_matched = matched])
        coreData == \A f \in {"link", "title", "imageLink"} : Truthy(Get(cj_prod_data[f]))
    IN  IF filtering /\ (title.t # "str" \/ description.t # "str")
        THEN ScanStep(TRUE, TRUE, unified_products, handed)     \* .lower() on a non-string
        ELSE IF filtering /\ matched = <<>>
        THEN ScanStep(FALSE, FALSE, unified_products, handed)
        ELSE IF unified_prod.raised THEN ScanStep(TRUE, TRUE, unified_products, handed + 1)
        ELSE IF unified_prod.out # <<>>
        THEN ScanStep(Len(appended) >= limit, FALSE, appended, handed + 1)
        ELSE IF coreData /\ is_valid_image_url(Get(cj_prod_data.imageLink), skip) = "raise"
        THEN ScanStep(TRUE, TRUE, unified_products, handed + 1)
        ELSE ScanStep(FALSE, FALSE, unified_products, handed + 1)

\* the "for cj_prod_data in products_list" loop from position i on; a raise leaves
\* the loop with the products appended so far
RECURSIVE cj_scan(_, _, _, _, _, _, _, _)
cj_scan(products_list, i, unified_products, handed, brand_name, keywords_list, limit, skip) ==
    IF i > Len(products_list) THEN ScanResult(FALSE, unified_products, handed)
    ELSE
    LET pass == cj_scan_record(products_list[i], i, unified_products, handed, brand_name,
                               keywords_list, limit, skip)
    IN  IF pass.stop THEN ScanResult(pass.raised, pass.out, pass.handed)
        ELSE cj_scan(products_list, i + 1, pass.out, pass.handed, brand_name,
                     keywords_list, limit, skip)

\* an upstream answer: the call raised, answered without data, or held a list
UpstreamRaise == [kind |-> "raise", data |-> <<>>]
UpstreamError == [kind |-> "error", data |-> <<>>]
UpstreamOk(data) == [kind |-> "ok", data |-> data]

\* the try block of fetch_cj_products
fetch_cj_try_body(raw_cj_data, brand_name, keywords_list, limit, skip) ==
    IF raw_cj_data.kind = "raise" THEN ScanResult(TRUE, <<>>, 0)
    ELSE IF raw_cj_data.kind = "ok"
    THEN cj_scan(raw_cj_data.data, 1, <<>>, 0, brand_name, keywords_list, limit, skip)
    ELSE ScanResult(FALSE, <<>>, 0)

\* fetch_cj_products without its try/except
fetch_cj_products_unguarded(raw_cj_data, brand_name, keywords_list, limit, skip) ==
    fetch_cj_try_body(raw_cj_data, brand_name, keywords_list, limit, skip)

\* fetch_cj_products: "except Exception" logs and falls through to the return
fetch_cj_products(raw_cj_data, brand_name, keywords_list, limit, skip) ==
    LET tried == fetch_cj_try_body(raw_cj_data, brand_name, keywords_list, limit, skip)
    IN  ScanResult(FALSE, tried.out, tried.handed)

-----------------------------------------------------------------------------
(* Ascend/pepperjam_publisher_api.py and fetch_pepperjam_products *)

\* the parameters get_publisher_product_creatives declares (it takes no **kwargs)
CreativesParameters ==
    {"program_ids", "categories", "keywords", "refurl", "page", "limit",
     "sort_by", "sort_order"}

\* the client call: an undeclared keyword argument is a TypeError at the call
get_publisher_product_creatives(kwargs, upstream) ==
    IF kwargs \subseteq CreativesParameters THEN upstream ELSE UpstreamRaise

\* the keyword arguments fetch_pepperjam_products passes to the client
FetchPepperjamKwargs ==
    {"program_ids", "keywords", "page", "limit", "output_raw_response"}

\* identifier_for_dedup = pj_prod_data.get('id') or pj_prod_data.get('name')
identifier_for_dedup(pj_prod_data) ==
    IF Truthy(Get(pj_prod_data.id)) THEN Get(pj_prod_data.id) ELSE Get(pj_prod_data.name)

\* the loop over one response's data: append the records not seen before, each
\* marked with the keyword term of its call
RECURSIVE pj_collect(_, _, _, _)
pj_collect(data, j, all_raw, term) ==
    IF j > Len(data) THEN all_raw
    ELSE
    LET ident == identifier_for_dedup(data[j])
        seen == {identifier_for_dedup(all_raw[k].raw) : k \in DOMAIN all_raw}
        mark == IF term # <<>> THEN Str(term) ELSE Absent
    IN  IF Truthy(ident) /\ ident \notin seen
        THEN pj_collect(data, j + 1,
                        Append(all_raw, [raw |-> data[j], fetched_by_keyword |-> mark]),
                        term)
        ELSE pj_collect(data, j + 1, all_raw, term)

\* api_call_keywords_terms: one call without keyword (<<>>), or one per keyword
api_call_keywords_terms(keywords_list) ==
    IF keywords_list = <<>> THEN << <<>> >> ELSE keywords_list

\* the loop over the calls; a call that raises or answers an error adds nothing
RECURSIVE pj_calls(_, _, _, _)
pj_calls(terms, upstreams, c, all_raw) ==
    IF c > Len(terms) THEN all_raw
    ELSE
    LET raw_pj_data_single_call ==
            get_publisher_product_creatives(FetchPepperjamKwargs, upstreams[c])
    IN  IF raw_pj_data_single_call.kind = "ok"
        THEN pj_calls(terms, upstreams, c + 1,
                      pj_collect(raw_pj_data_single_call.data, 1, all_raw, terms[c]))
        ELSE pj_calls(terms, upstreams, c + 1, all_raw)

\* the conversion loop over the collected records (outside any try block)
RECURSIVE pj_convert(_, _, _, _, _, _, _, _, _)
pj_convert(all_raw, i, unified_products, handed, brand_name, program_id, limit, process_all, skip) ==
    IF i > Len(all_raw) THEN ScanResult(FALSE, unified_products, handed)
    ELSE IF ~process_all /\ i > MAX_RAW_PRODUCTS_TO_SCAN_FROM_FEED
                         /\ Len(unified_products) < limit
    THEN ScanResult(FALSE, unified_products, handed)
    ELSE IF ~process_all /\ Len(unified_products) >= limit
    THEN ScanResult(FALSE, unified_products, handed)
    ELSE
    LET pj_prod_data == all_raw[i].raw
        fetched_by_keyword == all_raw[i].fetched_by_keyword
        unified_prod == pepperjam_product_to_unified(pj_prod_data, brand_name,
                                                     program_id, skip)
        marked == [unified_prod.out[1] EXCEPT !.keywords_matched =
                      IF Truthy(fetched_by_keyword)
                      THEN <<fetched_by_keyword.v>> ELSE <<>>]
        coreData == \A f \in {"buy_url", "image_url", "price"} :
                        Truthy(Get(pj_prod_data[f]))
    IN  IF unified_prod.out # <<>>
        THEN pj_convert(all_raw, i + 1, Append(unified_products, marked), handed + 1,
                        brand_name, program_id, limit, process_all, skip)
        ELSE IF coreData /\ is_valid_image_url(Get(pj_prod_data.image_url), skip) = "raise"
        THEN ScanResult(TRUE, unified_products, handed + 1)
        ELSE pj_convert(all_raw, i + 1, unified_products, handed + 1, brand_name,
                        program_id, limit, process_all, skip)

\* unified_products[:limit] for limit >= 0
Prefix(s, limit) == SubSeq(s, 1, IF limit < Len(s) THEN limit ELSE Len(s))

\* fetch_pepperjam_products; upstreams[c] is the upstream's answer to call c
fetch_pepperjam_products(upstreams, brand_name, program_id, keywords_list, limit, process_all, skip) ==
    LET all_raw == pj_calls(api_call_keywords_terms(keywords_list), upstreams, 1, <<>>)
        r == pj_convert(all_raw, 1, <<>>, 0, brand_name, program_id, limit,
                        process_all, skip)
    IN  IF r.raised THEN r ELSE ScanResult(FALSE, Prefix(r.out, limit), r.handed)

-----------------------------------------------------------------------------
(* Inputs of the retriever: raw records, upstream answers, keyword lists *)

T_Dreo == <<"D", "r", "e", "o">>
T_LeCreuset == <<"L", "e", " ", "C", "r", "e", "u", "s", "e", "t">>
T_fan == <<"f", "a", "n">>
T_pot == <<"p", "o", "t">>
T_TowerFan == <<"T", "o", "w", "e", "r", " ", "F", "a", "n">>
T_Heater == <<"H", "e", "a", "t", "e", "r">>
T_IronPot == <<"I", "r", "o", "n", " ", "P", "o", "t">>
T_out_of_stock == <<"o", "u", "t", " ", "o", "f", " ", "s", "t", "o", "c", "k">>
T_unavailable == <<"u", "n", "a", "v", "a", "i", "l", "a", "b", "l", "e">>

LiveImage == HttpUrl(<<"i">>)
DeadImage == HttpUrl(<<"d">>)
BuyLink == HttpUrl(<<"b">>)

\* the price amounts a raw record may carry
Amounts ==
    {Absent, Null, Str(<<"0", ".", "0", "0">>), Str(<<"0">>), Str(<<"0", ".", "0">>),
     Str(<<"a", "b", "c">>), Str(<<"9", ".", "9", "9">>), Num(<<"0">>), Num(<<"9">>)}

Availabilities ==
    {Absent, Null, Str(<<>>), Str(T_in_stock), Str(<<"I", "n", " ", "S", "t", "o", "c", "k">>),
     Str(T_out_of_stock), Str(T_unavailable)}

\* single CJ records handed to the adapter: every combination of field shapes
CJRecords ==
    {r \in [id : {Absent, Str(<<"A">>)},
            title : {Absent, Str(<<>>), Str(T_TowerFan)},
            description : {Absent},
            link : {Absent, Str(<<>>), BuyLink},
            imageLink : {Absent, Str(<<>>), LiveImage, DeadImage, Num(<<"7">>)},
            price : {Absent, Null, Obj},
            amount : Amounts,
            availability : Availabilities \ {Str(<<>>), Str(T_unavailable)},
            advertiserId : {Absent, Str(<<"6">>)},
            advertiserName : {Absent, Str(<<"O", "t", "h", "e", "r", " ", "C", "o", ".">>)}] :
        r.price.t # "obj" => r.amount = Absent}

\* single publisher (Pepperjam) records handed to the adapter
PJRecords ==
    [id : {Absent, Str(<<"A">>)},
     name : {Absent, Str(<<>>), Str(T_IronPot)},
     description_long : {Absent},
     description_short : {Absent, Str(T_pot)},
     buy_url : {Absent, Str(<<>>), BuyLink},
     image_url : {Absent, Str(<<>>), LiveImage, DeadImage, Num(<<"7">>)},
     price : Amounts,
     stock_availability : Availabilities \ {Str(<<"I", "n", " ", "S", "t", "o", "c", "k">>)},
     program_name : {Absent, Str(<<"X">>)}]

\* a well-formed CJ record and a well-formed publisher record
CjValid(id, title) ==
    [id |-> Str(id), title |-> Str(title), description |-> Str(<<>>),
     link |-> BuyLink, imageLink |-> LiveImage, price |-> Obj,
     amount |-> Str(<<"9", ".", "9", "9">>), availability |-> Str(T_in_stock),
     advertiserId |-> Str(<<"6">>), advertiserName |-> Absent]

PjValid(id, name) ==
    [id |-> Str(id), name |-> Str(name), description_long |-> Str(<<>>),
     description_short |-> Absent, buy_url |-> BuyLink, image_url |-> LiveImage,
     price |-> Str(<<"9", ".", "9", "9">>), stock_availability |-> Str(T_in_stock),
     program_name |-> Absent]

\* the records an upstream list is built from: well-formed ones (two of them with
\* the same id), and malformed or rejected ones
CJFeedRecords ==
    {CjValid(<<"A">>, T_TowerFan), CjValid(<<"B">>, T_Heater), CjValid(<<"A">>, T_Heater),
     [CjValid(<<"C">>, T_TowerFan) EXCEPT !.price = Null, !.amount = Absent],
     [CjValid(<<"C">>, T_TowerFan) EXCEPT !.amount = Str(<<"a", "b", "c">>)],
     [CjValid(<<"C">>, T_TowerFan) EXCEPT !.availability = Null],
     [CjValid(<<"C">>, T_TowerFan) EXCEPT !.title = Str(<<>>)],
     [CjValid(<<"C">>, T_TowerFan) EXCEPT !.availability = Str(T_out_of_stock)],
     [CjValid(<<"D">>, T_Heater) EXCEPT !.description = Str(T_IronPot)],
     [CjValid(<<"E">>, T_TowerFan) EXCEPT !.description = Null]}

PJFeedRecords ==
    {PjValid(<<"A">>, T_IronPot), PjValid(<<"A">>, T_Heater),
     [PjValid(<<"B">>, T_IronPot) EXCEPT !.image_url = Num(<<"7">>), !.price = Str(<<"a", "b", "c">>)]}

SeqsUpTo(S, n) == UNION {[1..k -> S] : k \in 0..n}

CJUpstreams ==
    {UpstreamRaise, UpstreamError} \cup {UpstreamOk(l) : l \in SeqsUpTo(CJFeedRecords, MaxRaw)}
PJUpstreams ==
    {UpstreamRaise, UpstreamError} \cup {UpstreamOk(l) : l \in SeqsUpTo(PJFeedRecords, MaxRaw)}

KeywordLists == {<<>>, <<T_fan>>, <<T_fan, T_pot>>}

\* the identity triples and titles UnifiedProduct is constructed from
SkuBrands == {T_Dreo, Upper(T_Dreo), T_LeCreuset, ReplaceChar(T_LeCreuset, " ", <<"_">>),
              <<"D", "r", ".", "e", "o">>}
SkuSources == {T_cj, T_pepperjam}
SkuProductIds == {<<"A">>, <<"B">>, <<"A", " ", "1">>}
SkuTitles == {T_TowerFan, T_Heater}

\* the products handed to _filter_products_by_keywords: the conversions of the feed
\* records, one of them still carrying the keyword an earlier pass matched
FilterProducts ==
    LET converted == {cj_product_to_unified(rec, T_Dreo, T_cj, TRUE) : rec \in CJFeedRecords}
        products == {r.out[1] : r \in {c \in converted : c.out # <<>>}}
    IN  products \cup {[q EXCEPT !.keywords_matched = <<T_pot>>] :
                           q \in {x \in products : x.title = Str(T_Heater)}}

-----------------------------------------------------------------------------
(* The retriever applied to every input: one action per entry point *)

ConvertCJ ==
    /\ rcall.op = "idle"
    /\ UNCHANGED <<ovars, cvars>>
    /\ \E rec \in CJRecords, skip \in BOOLEAN :
         \E r \in {cj_product_to_unified(rec, T_Dreo, T_cj, skip)} :
             rcall' = [op |-> "cj_adapter", record |-> rec, skip |-> skip,
                       raised |-> r.raised, out |-> r.out]

ConvertPJ ==
    /\ rcall.op = "idle"
    /\ UNCHANGED <<ovars, cvars>>
    /\ \E rec \in PJRecords, skip \in BOOLEAN :
         \E r \in {pepperjam_product_to_unified(rec, T_LeCreuset, <<"6", "2">>, skip)} :
             rcall' = [op |-> "pj_adapter", record |-> rec, skip |-> skip,
                       raised |-> r.raised, out |-> r.out]

FetchCJ ==
    /\ rcall.op = "idle"
    /\ UNCHANGED <<ovars, cvars>>
    /\ \E up \in CJUpstreams, kws \in KeywordLists, limit \in 0..MaxLimit, skip \in BOOLEAN :
         \E r \in {fetch_cj_products(up, T_Dreo, kws, limit, skip)} :
             rcall' = [op |-> "fetch_cj", upstreams |-> <<up>>, keywords_list |-> kws,
                       limit |-> limit, skip |-> skip,
                       raised |-> r.raised, out |-> r.out, handed |-> r.handed]

FetchPJ ==
    /\ rcall.op = "idle"
    /\ UNCHANGED <<ovars, cvars>>
    /\ \E kws \in KeywordLists, limit \in 0..MaxLimit, process_all, skip \in BOOLEAN :
         \E ups \in [1..Len(api_call_keywords_terms(kws)) -> PJUpstreams] :
           \E r \in {fetch_pepperjam_products(ups, T_LeCreuset, <<"6", "2">>, kws, limit,
                                              process_all, skip)} :
               rcall' = [op |-> "fetch_pj", upstreams |-> ups, keywords_list |-> kws,
                         limit |-> limit, process_all |-> process_all, skip |-> skip,
                         raised |-> r.raised, out |-> r.out, handed |-> r.handed]


-----------------------------------------------------------------------------
(* Shopify/shopify_connector.py over the catalog sink *)

\* a request's outcome as the connector sees it after _request_with_retry
Outcomes == {"ok", "raise"}

\* what a connector method gives back: raised, or a value (0 for None), with the
\* sink and the write log as the method leaves them
Gave(raised, value, store, log) ==
    [raised |-> raised, value |-> value, shopify |-> store, writes |-> log]

\* ShopifyConnector.__init__(dry_run=False, test_mode=False)
ShopifyConnector(dry_run, test_mode) ==
    [present |-> TRUE, dry_run |-> dry_run, test_mode |-> test_mode]
NoConnector == [present |-> FALSE, dry_run |-> FALSE, test_mode |-> FALSE]

MAX_RETRIES == 3

\* what the wrapped call does when invoked: it returns, or raises a ClientError
\* with code 429, another ClientError, a ServerError, or another exception
Answers == {"ok", "429", "client", "server", "other"}

\* the wrapped functions by name: writes and a read; in a dry run the writes are
\* answered without being invoked
RequestFuncs == {"save", "destroy", "find"}
MockedInDryRun == {"save", "destroy", "post", "put", "delete"}

NoRequest == [status |-> "idle", dry_run |-> FALSE, func |-> "find", retries |-> 0,
              answers |-> <<>>, error |-> "none"]

\* every client error is retried
client_errors_retried(error) == error \in {"429", "client", "server"}

\* the errors after which _request_with_retry goes round the loop again
retried(error) == error \in {"429", "server"}

\* _request_with_retry(func): the entry, with the dry-run answer for a write
CallRequest ==
    /\ request.status = "idle"
    /\ \E dry_run \in BOOLEAN, func \in RequestFuncs :
         request' = [NoRequest EXCEPT
                        !.dry_run = dry_run, !.func = func,
                        !.status = IF dry_run /\ func \in MockedInDryRun THEN "returned"
                                   ELSE "running"]
    /\ UNCHANGED <<rvars, ovars>>

\* one round of "while retries < self.MAX_RETRIES": the call is invoked and
\* answers; answers records what it did at each invocation
Attempt ==
    /\ request.status = "running"
    /\ IF request.retries < MAX_RETRIES
       THEN \E answer \in Answers :
              request' =
                 IF answer = "ok"
                 THEN [request EXCEPT !.answers = Append(@, answer), !.status = "returned"]
                 ELSE IF retried(answer) /\ request.retries + 1 < MAX_RETRIES
                 THEN [request EXCEPT !.answers = Append(@, answer), !.retries = @ + 1]
                 ELSE [request EXCEPT !.answers = Append(@, answer),
                                      !.retries = IF retried(answer) THEN @ + 1 ELSE @,
                                      !.status = "raised", !.error = answer]
       ELSE request' = [request EXCEPT !.status = "returned"]
    /\ UNCHANGED <<rvars, ovars>>

\* the loop over all_collections: the first collection of the handle if there is
\* one, else the first of the title (0: none)
existing_collection(store, title, handle) ==
    LET by_handle == {c \in DOMAIN store.collections : store.collections[c].handle = handle}
        by_title == {c \in DOMAIN store.collections : store.collections[c].title = title}
    IN  IF by_handle # {} THEN CHOOSE c \in by_handle : \A d \in by_handle : c <= d
        ELSE IF by_title # {} THEN CHOOSE c \in by_title : \A d \in by_title : c <= d
        ELSE 0

\* get_or_create_collection: find by handle or title, bring an existing one to the
\* wanted published state and body, or create it; the id is the position. A save
\* that answers with errors is logged and the collection returned as it is for an
\* update, and raised for a creation
get_or_create_collection(conn, store, log, title, handle, published, body_html, env) ==
    LET c0 == existing_collection(store, title, handle)
        found == IF c0 = 0 THEN {} ELSE {c0}
        old == store.collections[c0]
        needs_update == old.published # published
                        \/ (body_html # <<>> /\ old.body_html # body_html)
        updated == [store EXCEPT !.collections[c0].published = published,
                                 !.collections[c0].body_html =
                                     IF body_html # <<>> THEN body_html ELSE @]
        created == [store EXCEPT !.collections =
                       Append(@, [title |-> title, handle |-> handle,
                                  published |-> published, body_html |-> body_html])]
    IN  IF env.find = "raise" THEN Gave(TRUE, 0, store, log)
        ELSE IF found # {}
        THEN IF needs_update /\ ~conn.dry_run
             THEN IF env.save = "raise" THEN Gave(TRUE, 0, store, log)
                  ELSE IF env.save = "errors" THEN Gave(FALSE, c0, store, log)
                  ELSE Gave(FALSE, c0, updated, log \cup {"collection_update"})
             ELSE Gave(FALSE, c0, store, log)
        ELSE IF conn.dry_run THEN Gave(FALSE, Len(store.collections) + 1, store, log)
        ELSE IF env.save \in {"raise", "errors"} THEN Gave(TRUE, 0, store, log)
        ELSE Gave(FALSE, Len(store.collections) + 1, created, log \cup {"collection_create"})

\* a lookup that never finds the sku
get_product_by_sku_blind(conn, store, log, sku, env) ==
    Gave(env.lookup = "raise", 0, store, log)

\* get_product_by_sku: the first product one of whose variants carries the sku
get_product_by_sku(conn, store, log, sku, env) ==
    LET found == {q \in DOMAIN store.products : store.products[q].sku = sku}
    IN  IF env.lookup = "raise" THEN Gave(TRUE, 0, store, log)
        ELSE IF found = {} THEN Gave(FALSE, 0, store, log)
        ELSE Gave(FALSE, CHOOSE q \in found : \A r \in found : q <= r, store, log)

\* create_product(unified_product, status): published_at is None for 'draft' and
\* the time of the call for 'active'
create_product(conn, store, log, unified_product, status, env) ==
    LET new == [sku |-> unified_product.sku,
                title |-> unified_product.title,
                body_html |-> unified_product.description,
                vendor |-> unified_product.brand_name,
                image |-> unified_product.image_url,
                price |-> unified_product.price,
                published |-> (status = "active")]
    IN  IF conn.dry_run THEN Gave(FALSE, Len(store.products) + 1, store, log)
        ELSE IF env.save = "raise" THEN Gave(TRUE, 0, store, log)
        ELSE Gave(FALSE, Len(store.products) + 1,
                  [store EXCEPT !.products = Append(@, new)],
                  log \cup {"product_create"})

\* update_product: save only the fields that differ; the published state is kept
update_product(conn, store, log, shopify_product_id, unified_product, env) ==
    LET old == store.products[shopify_product_id]
        new == [old EXCEPT !.title = unified_product.title,
                           !.body_html = unified_product.description,
                           !.vendor = unified_product.brand_name,
                           !.image = IF Truthy(unified_product.image_url)
                                     THEN unified_product.image_url ELSE @,
                           !.price = unified_product.price]
    IN  IF env.find = "raise" THEN Gave(TRUE, 0, store, log)
        ELSE IF conn.dry_run THEN Gave(FALSE, shopify_product_id, store, log)
        ELSE IF new = old THEN Gave(FALSE, shopify_product_id, store, log)
        ELSE IF env.save = "raise" THEN Gave(TRUE, 0, store, log)
        ELSE Gave(FALSE, shopify_product_id,
                  [store EXCEPT !.products[shopify_product_id] = new],
                  log \cup {"product_update"})

\* add_product_to_collection: env.collect is the sink's answer to collect.save:
\* saved, refused with errors (None, or the existing collect when the pair is
\* already there), or raised
add_product_to_collection(conn, store, log, shopify_product_id, collection_id, env) ==
    LET pair == <<shopify_product_id, collection_id>>
    IN  IF conn.dry_run THEN Gave(FALSE, 1, store, log)
        ELSE IF env.collect = "raise" THEN Gave(TRUE, 0, store, log)
        ELSE IF pair \in store.collects THEN Gave(FALSE, 1, store, log)
        ELSE IF env.collect = "errors" THEN Gave(FALSE, 0, store, log)
        ELSE Gave(FALSE, 1, [store EXCEPT !.collects = @ \cup {pair}],
                  log \cup {"collect_create"})

\* set_product_metafield: every exception is caught and answered with None
set_product_metafield(conn, store, log, shopify_product_id, key, value, env) ==
    IF conn.dry_run THEN Gave(FALSE, 1, store, log)
    ELSE IF env.metafield = "raise" THEN Gave(FALSE, 0, store, log)
    ELSE Gave(FALSE, 1,
              [store EXCEPT !.metafields =
                  {m \in @ : ~(m[1] = shopify_product_id /\ m[2] = key)}
                  \cup {<<shopify_product_id, key, value>>}],
              log \cup {"metafield_set"})

-----------------------------------------------------------------------------
(* Core/sync_orchestrator.py: configuration and the fetch and selection stage *)

T_Acme == <<"A", "c", "m", "e">>
T_pepperjam_id == <<"6", "2", "0", "0">>
T_cj_id == <<"6", "0", "8", "8", "7", "6", "4">>

\* BRAND_CONFIG, restricted to one brand of each source
BRAND_CONFIG ==
    [b \in {T_Dreo, T_LeCreuset} |->
        IF b = T_Dreo THEN [api_type |-> T_cj, id |-> T_cj_id]
        ELSE [api_type |-> T_pepperjam, id |-> T_pepperjam_id]]

METAFIELD_KEY_AFFILIATE_LINK == "custom.affiliate_link"
DEFAULT_PRODUCT_LIMIT == 75
TEST_FETCH_LIMIT_PER_KEYWORD == 3

\* SyncOrchestrator.__init__: product_limit 0 stands for None; the connector is
\* built with its default arguments
SyncOrchestrator(dry_run, test_mode, fetch_only, product_limit, skip_image_validation) ==
    [dry_run |-> dry_run, test_mode |-> test_mode, fetch_only |-> fetch_only,
     skip_image_validation |-> skip_image_validation,
     product_limit |-> IF product_limit # 0 THEN product_limit
                       ELSE IF test_mode THEN 1 ELSE DEFAULT_PRODUCT_LIMIT,
     successful_brands_count |-> 0,
     failed_brands_info |-> << >>]

\* s.split(',') and kw.strip()
RECURSIVE Split(_, _)
Split(s, cur) ==
    IF s = <<>> THEN <<cur>>
    ELSE IF Head(s) = "," THEN <<cur>> \o Split(Tail(s), <<>>)
    ELSE Split(Tail(s), Append(cur, Head(s)))

RECURSIVE Strip(_)
Strip(s) ==
    IF s # <<>> /\ Head(s) = " " THEN Strip(Tail(s))
    ELSE IF s # <<>> /\ s[Len(s)] = " " THEN Strip(SubSeq(s, 1, Len(s) - 1))
    ELSE s

\* user_keywords: [kw.strip() for kw in user_keywords_str.split(',')], [] for None or ''
user_keywords_of(user_keywords_str) ==
    IF user_keywords_str = <<>> THEN <<>>
    ELSE LET parts == Split(user_keywords_str, <<>>)
         IN  [k \in DOMAIN parts |-> Strip(parts[k])]

\* re.sub(r'[^a-z0-9-]+', '-', s) followed by the removal of '-' at both ends
IsHandleChar(c) == c = "-" \/ IsDigit(c) \/ \E k \in DOMAIN Letters : Letters[k] = c
RECURSIVE SubDashes(_, _)
SubDashes(s, inRun) ==
    IF s = <<>> THEN <<>>
    ELSE IF IsHandleChar(Head(s)) THEN <<Head(s)>> \o SubDashes(Tail(s), FALSE)
    ELSE (IF inRun THEN <<>> ELSE <<"-">>) \o SubDashes(Tail(s), TRUE)
RECURSIVE StripDashes(_)
StripDashes(s) ==
    IF s # <<>> /\ Head(s) = "-" THEN StripDashes(Tail(s))
    ELSE IF s # <<>> /\ s[Len(s)] = "-" THEN StripDashes(SubSeq(s, 1, Len(s) - 1))
    ELSE s

T_draft_title == <<" ", "-", " ", "A", "P", "I", " ", "P", "r", "o", "d", "u", "c", "t", "s",
                   " ", "-", " ", "D", "r", "a", "f", "t">>
T_draft_handle == <<"-", "a", "p", "i", "-", "p", "r", "o", "d", "u", "c", "t", "s", "-",
                    "d", "r", "a", "f", "t">>
master_collection_title(brand_name) == brand_name \o T_draft_title
master_collection_handle(brand_name) ==
    StripDashes(SubDashes(Lower(brand_name) \o T_draft_handle, FALSE))
master_collection_body(brand_name, api_type) == brand_name \o <<" ">> \o Upper(api_type)

\* _filter_products_by_keywords: OR over the phrases, on title and description
filter_products_by_keywords(products, user_keywords) ==
    IF user_keywords = <<>> THEN products
    ELSE LET hits(p) ==
                 SelectSeq(user_keywords,
                           LAMBDA kw :
                               \/ Truthy(p.title) /\ Contains(Lower(kw), Lower(p.title.v))
                               \/ Truthy(p.description)
                                  /\ Contains(Lower(kw), Lower(p.description.v)))
             tagged == [k \in DOMAIN products |->
                           [products[k] EXCEPT !.keywords_matched = hits(products[k])]]
         IN  SelectSeq(tagged, LAMBDA p : p.keywords_matched # <<>>)

\* one retriever call of the orchestrator, by the brand's source
fetch_products(api_type, upstream, brand_name, api_id, keywords_list, limit, skip) ==
    IF api_type = T_cj
    THEN fetch_cj_products(upstream, brand_name, keywords_list, limit, skip)
    ELSE fetch_pepperjam_products([c \in 1..Len(api_call_keywords_terms(keywords_list))
                                      |-> upstream],
                                  brand_name, api_id, keywords_list, limit, TRUE, skip)

\* test mode with keywords: one call per keyword, merged by source_product_id,
\* each product tagged with the keyword of the call that brought it
RECURSIVE merge_by_source_id(_, _, _)
merge_by_source_id(acc, products, keyword_item) ==
    IF products = <<>> THEN acc
    ELSE LET p == Head(products)
             seen == {acc[k].source_product_id : k \in DOMAIN acc}
         IN  merge_by_source_id(
                 IF p.source_product_id \in seen THEN acc
                 ELSE Append(acc, [p EXCEPT !.keywords_matched = <<keyword_item>>]),
                 Tail(products), keyword_item)

\* a fetch that raises is not caught here: the exception leaves the loop
RECURSIVE test_mode_fetch(_, _, _, _, _, _, _, _)
test_mode_fetch(api_type, upstreams, brand_name, api_id, user_keywords, j, acc, skip) ==
    IF j > Len(user_keywords) THEN FetchReturn(acc)
    ELSE LET Merged(keyword_specific_products) ==
                 IF keyword_specific_products.raised THEN FetchRaised(acc)
                 ELSE test_mode_fetch(api_type, upstreams, brand_name, api_id,
                                      user_keywords, j + 1,
                                      merge_by_source_id(acc, keyword_specific_products.out,
                                                         user_keywords[j]),
                                      skip)
         IN  Merged(fetch_products(api_type, upstreams[j], brand_name, api_id,
                                   <<user_keywords[j]>>, TEST_FETCH_LIMIT_PER_KEYWORD, skip))

\* the first product of each keyword, in order of first appearance
RECURSIVE one_per_keyword(_, _)
one_per_keyword(products, taken) ==
    IF products = <<>> THEN <<>>
    ELSE LET p == Head(products)
         IN  IF p.keywords_matched # <<>> /\ p.keywords_matched[1] \notin taken
             THEN <<p>> \o one_per_keyword(Tail(products), taken \cup {p.keywords_matched[1]})
             ELSE one_per_keyword(Tail(products), taken)

-----------------------------------------------------------------------------
(* Inputs of the orchestrator *)

T_Fan_pot == <<"F", "a", "n", ",", " ", "p", "o", "t">>

BrandNames == {T_Dreo, T_LeCreuset, T_Acme}
BrandLists ==
    {l \in SeqsUpTo(BrandNames, MaxBrands) : \A a, b \in DOMAIN l : a # b => l[a] # l[b]}

\* keywords_by_brand.get(brand_name): None (<<>>) or a comma-separated string
KeywordStrings == {<<>>, T_Fan_pot}

\* what the upstream may answer to one call of the orchestrator
OrchestratorFeeds ==
    {UpstreamRaise,
     UpstreamOk(<<CjValid(<<"A">>, T_TowerFan), CjValid(<<"B">>, T_Heater)>>),
     UpstreamOk(<<[CjValid(<<"C">>, T_TowerFan) EXCEPT !.availability = Str(T_out_of_stock)]>>),
     UpstreamOk(<<CjValid(<<"B">>, T_Heater)>>),
     UpstreamOk(<<CjValid(<<"A">>, T_TowerFan), CjValid(<<"D">>, T_IronPot)>>),
     UpstreamOk(<<CjValid(<<"A">>, T_TowerFan), CjValid(<<"A">>, T_Heater)>>),
     UpstreamOk(<<[CjValid(<<"C">>, T_TowerFan) EXCEPT !.availability = Str(T_out_of_stock)],
                  CjValid(<<"B">>, T_Heater)>>)}

\* the sink before the run: empty, or holding the Dreo draft collection and the
\* product of upstream record A (a draft in the collection, or a published one
\* whose title differs)
EmptyCatalog == [products |-> <<>>, collections |-> <<>>, collects |-> {}, metafields |-> {}]
DreoCollection(published) ==
    [title |-> master_collection_title(T_Dreo), handle |-> master_collection_handle(T_Dreo),
     published |-> published, body_html |-> master_collection_body(T_Dreo, T_cj)]
DreoProductA(title, published) ==
    [sku |-> DerivedSku(T_Dreo, T_cj, <<"A">>), title |-> Str(title), body_html |-> Str(<<>>),
     vendor |-> T_Dreo, image |-> LiveImage, price |-> 999, published |-> published]
InitialCatalogs ==
    {EmptyCatalog,
     [products |-> <<DreoProductA(T_TowerFan, FALSE)>>, collections |-> <<DreoCollection(FALSE)>>,
      collects |-> {<<1, 1>>}, metafields |-> {<<1, METAFIELD_KEY_AFFILIATE_LINK, BuyLink>>}],
     [products |-> <<DreoProductA(T_Heater, TRUE)>>, collections |-> <<DreoCollection(TRUE)>>,
      collects |-> {}, metafields |-> {}]}

\* a sink in which one collection has the Dreo title under another handle and a
\* later one the Dreo handle under another title
TwoCollectionsCatalog ==
    [EmptyCatalog EXCEPT !.collections =
        <<[DreoCollection(FALSE) EXCEPT !.handle = <<"o", "l", "d">>],
          [DreoCollection(FALSE) EXCEPT !.title = <<"O", "l", "d">>]>>]

CollectionEnvs == [find : Outcomes, save : {"ok", "errors", "raise"}]

\* the product_limit argument of the constructor: None (0) or a count
ProductLimits == {0, 1}
ProductEnvs == [lookup : Outcomes, find : Outcomes, save : Outcomes,
                collect : {"ok", "errors", "raise"}, metafield : Outcomes]

-----------------------------------------------------------------------------
(* run_sync_for_brand and run_full_sync *)

NoRun == [brand_name |-> <<>>, final_products_to_sync |-> <<>>, prod_idx |-> 0,
          product_sync_attempt_count |-> 0, product_sync_success_count |-> 0,
          collection_id |-> 0, upserts |-> <<>>, raw_count |-> 0, exported |-> <<>>,
          created |-> {}, calls |-> {}, raw_api_products |-> <<>>, user_keywords |-> <<>>,
          order |-> <<>>, faults |-> <<>>]

\* self.failed_brands_info[brand_name] = reason
MarkFailed(orch, brand_name, reason) ==
    [orch EXCEPT !.failed_brands_info =
        [b \in DOMAIN @ \cup {brand_name} |-> IF b = brand_name THEN reason ELSE @[b]]]

\* every existing product is put into the collection
always_collected(store, shopify_product_id) == TRUE

\* the test turned round: only a published product is put into the collection
is_published(store, shopify_product_id) == store.products[shopify_product_id].published

\* "if shopify_product_to_manage.published_at is None"
is_draft(store, shopify_product_id) == ~store.products[shopify_product_id].published

\* _generate_sku, the orchestrator's fallback for a product without sku
generate_sku(brand_name, source_api, source_product_id) ==
    LET brand_slug == ReplaceChar(ReplaceChar(Upper(brand_name), " ", <<"_">>), ".", <<>>)
        api_slug == Upper(source_api)
        safe_source_product_id == ReplaceChar(source_product_id, " ", <<"-">>)
    IN  brand_slug \o <<"-">> \o api_slug \o <<"-">> \o safe_source_product_id

\* "if not unified_product.sku: unified_product.sku = self._generate_sku(...)"
ensure_sku(unified_product, brand_name, api_type) ==
    IF unified_product.sku # <<>> THEN unified_product
    ELSE [unified_product EXCEPT
             !.sku = generate_sku(brand_name, api_type, unified_product.source_product_id)]

\* the try block of one iteration of the product loop: ok tells whether it ran to
\* the increment of product_sync_success_count
sync_product(conn, store, log, unified_product, collection_id, env) ==
    LET existing == get_product_by_sku(conn, store, log, unified_product.sku, env)
        updated == update_product(conn, store, log, existing.value, unified_product, env)
        meta_u == set_product_metafield(conn, updated.shopify, updated.writes, updated.value,
                                        METAFIELD_KEY_AFFILIATE_LINK,
                                        unified_product.product_url, env)
        add_u == add_product_to_collection(conn, meta_u.shopify, meta_u.writes,
                                           updated.value, collection_id, env)
        created == create_product(conn, store, log, unified_product, "draft", env)
        add_c == add_product_to_collection(conn, created.shopify, created.writes,
                                           created.value, collection_id, env)
        meta_c == set_product_metafield(conn, add_c.shopify, add_c.writes, created.value,
                                        METAFIELD_KEY_AFFILIATE_LINK,
                                        unified_product.product_url, env)
        isNew == ~existing.raised /\ existing.value = 0 /\ ~created.raised
        order ==                     \* the connector methods called, as they are called
            <<"get_product_by_sku">>
            \o (IF existing.raised THEN <<>>
                ELSE IF existing.value # 0
                THEN <<"update_product">>
                     \o (IF updated.raised THEN <<>>
                         ELSE <<"set_product_metafield">>
                              \o (IF is_draft(updated.shopify, updated.value)
                                  THEN <<"add_product_to_collection">> ELSE <<>>))
                ELSE <<"create_product">>
                     \o (IF created.raised THEN <<>>
                         ELSE <<"add_product_to_collection">>
                              \o (IF add_c.raised THEN <<>>
                                  ELSE <<"set_product_metafield">>)))
        calls == {order[n] : n \in DOMAIN order}
        faults ==                    \* the calls that raised or answered None
            IF existing.raised THEN {"get_product_by_sku"}
            ELSE IF existing.value # 0
            THEN IF updated.raised THEN {"update_product"}
                 ELSE (IF meta_u.value = 0 THEN {"set_product_metafield"} ELSE {})
                      \cup (IF is_draft(updated.shopify, updated.value)
                                /\ (add_u.raised \/ add_u.value = 0)
                            THEN {"add_product_to_collection"} ELSE {})
            ELSE IF created.raised THEN {"create_product"}
            ELSE IF add_c.raised THEN {"add_product_to_collection"}
            ELSE (IF add_c.value = 0 THEN {"add_product_to_collection"} ELSE {})
                 \cup (IF meta_c.value = 0 THEN {"set_product_metafield"} ELSE {})
        found == IF existing.raised THEN 0 ELSE existing.value
        Failed(r) == [ok |-> FALSE, id |-> 0, found |-> found,
                      shopify |-> r.shopify, writes |-> r.writes,
                      created |-> IF isNew THEN {created.value} ELSE {}, calls |-> calls,
                      order |-> order, faults |-> faults]
        Done(r, id) == [ok |-> TRUE, id |-> id, found |-> found,
                        shopify |-> r.shopify, writes |-> r.writes,
                        created |-> IF isNew THEN {created.value} ELSE {}, calls |-> calls,
                        order |-> order, faults |-> faults]
    IN  IF existing.raised THEN Failed(existing)
        ELSE IF existing.value # 0
        THEN IF updated.raised THEN Failed(updated)
             ELSE IF ~is_draft(updated.shopify, updated.value) THEN Done(meta_u, updated.value)
             ELSE IF add_u.raised THEN Failed(add_u)
             ELSE Done(add_u, updated.value)
        ELSE IF created.raised THEN Failed(created)
        ELSE IF add_c.raised THEN Failed(add_c)
        ELSE Done(meta_c, created.value)

\* the id is written back as soon as the product was found by its sku
record_found_id(unified_product, r) ==
    [unified_product EXCEPT !.shopify_product_id = IF r.ok THEN r.id ELSE r.found]

\* "if shopify_product_to_manage and hasattr(shopify_product_to_manage, 'id'):
\*      unified_product.shopify_product_id = shopify_product_to_manage.id",
\* the last statement of the try block
record_catalog_id(unified_product, r) ==
    [unified_product EXCEPT !.shopify_product_id = IF r.ok THEN r.id ELSE @]

\* no product is set aside for its availability
every_product(raw_api_products) == raw_api_products

\* "available_products = [p for p in raw_api_products if p.availability]"
in_stock_products(raw_api_products) == SelectSeq(raw_api_products, LAMBDA q : q.availability)

\* the fetch is never taken for empty
never_empty(raw_api_products) == FALSE

\* "if not raw_api_products"
no_products(raw_api_products) == raw_api_products = <<>>

\* the brand run goes on to the catalog in every mode
goes_on_to_the_catalog(orch) == FALSE

\* "if self.fetch_only: ... return" after the export
exports_and_returns(orch) == orch.fetch_only

\* the tallies go on from where the call before left them
tallies_kept(orch) == orch

\* "self.successful_brands_count = 0" and "self.failed_brands_info = {}"
reset_tallies(orch) ==
    [orch EXCEPT !.successful_brands_count = 0, !.failed_brands_info = << >>]

\* run_full_sync up to the loop: the tallies are reset
RunFullSync ==
    /\ pc = "start"
    /\ orchestrator' = reset_tallies(orchestrator)
    /\ brand_idx' = 1
    /\ pc' = IF brands_to_process = <<>> THEN "done" ELSE "brand"
    /\ UNCHANGED <<rcall, request, earlier_run,
                   shopify_connector, shopify, brands_to_process, brand_run,
                   writes, history>>

\* the most products the last brand run of a call selected for the call to be
\* followed up by a second one
MaxRerun == 1

\* run_full_sync called once more with the same list, as the next scheduled run
\* does: the catalog is as the earlier call left it
RunFullSyncAgain ==
    /\ pc = "done"
    /\ earlier_run = NoRun
    /\ Len(brand_run.final_products_to_sync) <= MaxRerun
    /\ brands_to_process # <<>>
    /\ orchestrator' = reset_tallies(orchestrator)
    /\ brand_idx' = 1
    /\ pc' = "brand"
    /\ earlier_run' = brand_run
    /\ history' = <<>>
    /\ UNCHANGED <<rcall, request, shopify_connector, shopify, brands_to_process,
                   brand_run, writes>>

\* run_sync_for_brand from its entry to the selection of final_products_to_sync,
\* the dry-run export and the fetch-only return
FetchAndSelect ==
    /\ pc = "brand"
    /\ LET brand_name == brands_to_process[brand_idx]
           fresh == [NoRun EXCEPT !.brand_name = brand_name]
       IN  IF brand_name \notin DOMAIN BRAND_CONFIG
           THEN /\ orchestrator' = MarkFailed(orchestrator, brand_name, "brand not configured")
                /\ brand_run' = fresh
                /\ pc' = "tally"
           ELSE \E user_keywords_str \in KeywordStrings :
                \E upstreams \in [1..Len(api_call_keywords_terms(
                                           user_keywords_of(user_keywords_str)))
                                   -> OrchestratorFeeds] :
                LET api_type == BRAND_CONFIG[brand_name].api_type
                    api_id == BRAND_CONFIG[brand_name].id
                    user_keywords == user_keywords_of(user_keywords_str)
                    per_keyword == orchestrator.test_mode /\ user_keywords # <<>>
                    current_target_limit ==
                        IF orchestrator.test_mode THEN 1 ELSE orchestrator.product_limit
                IN  \E fetched \in
                        {IF per_keyword
                         THEN test_mode_fetch(api_type, upstreams, brand_name, api_id,
                                              user_keywords, 1, <<>>,
                                              orchestrator.skip_image_validation)
                         ELSE fetch_products(api_type, upstreams[1], brand_name, api_id,
                                             user_keywords, orchestrator.product_limit,
                                             orchestrator.skip_image_validation)} :
                    \E raw_api_products \in {fetched.out} :
                    \E available_products \in {in_stock_products(raw_api_products)} :
                    \E final_products_to_sync \in
                        {IF per_keyword THEN one_per_keyword(available_products, {})
                         ELSE Prefix(filter_products_by_keywords(available_products,
                                                                 user_keywords),
                                     current_target_limit)} :
                    LET products_to_export ==
                            IF orchestrator.fetch_only /\ api_type = T_pepperjam
                                                       /\ user_keywords # <<>>
                            THEN raw_api_products
                            ELSE IF orchestrator.fetch_only \/ orchestrator.dry_run
                            THEN final_products_to_sync ELSE <<>>
                    IN  IF fetched.raised
                        THEN /\ orchestrator' = orchestrator
                             /\ brand_run' = fresh
                             /\ pc' = "crashed"
                        ELSE IF no_products(raw_api_products)
                        THEN /\ orchestrator' = MarkFailed(orchestrator, brand_name,
                                                           "no products fetched from the API")
                             /\ brand_run' = fresh
                             /\ pc' = "tally"
                        ELSE /\ orchestrator' = orchestrator
                             /\ brand_run' =
                                   [fresh EXCEPT
                                       !.final_products_to_sync = final_products_to_sync,
                                       !.prod_idx = 1,
                                       !.raw_count = Len(raw_api_products),
                                       !.raw_api_products = raw_api_products,
                                       !.user_keywords = user_keywords,
                                       !.order = <<<<"fetch_products">>>>,
                                       !.exported = products_to_export]
                             /\ pc' = IF exports_and_returns(orchestrator) THEN "tally"
                                      ELSE "collection"
    /\ UNCHANGED <<rcall, request, earlier_run,
                   shopify_connector, shopify, brands_to_process, brand_idx,
                   writes, history>>

\* the master draft collection of the brand is found or created
EnsureCollection ==
    /\ pc = "collection"
    /\ \E env \in CollectionEnvs :
         \E brand_name \in {brand_run.brand_name} :
         \E r \in {get_or_create_collection(
                      shopify_connector, shopify, writes,
                      master_collection_title(brand_name),
                      master_collection_handle(brand_name), FALSE,
                      master_collection_body(brand_name, BRAND_CONFIG[brand_name].api_type),
                      env)} :
             /\ shopify' = r.shopify
             /\ writes' = r.writes
             /\ IF r.raised
                THEN /\ orchestrator' = MarkFailed(orchestrator, brand_name,
                                                   "collection handling raised")
                     /\ brand_run' = [brand_run EXCEPT !.calls = {"get_or_create_collection"},
                                           !.order = Append(@, <<"get_or_create_collection">>)]
                     /\ pc' = "tally"
                ELSE IF r.value = 0
                THEN /\ orchestrator' = MarkFailed(orchestrator, brand_name,
                                                   "collection could not be found or created")
                     /\ brand_run' = [brand_run EXCEPT !.calls = {"get_or_create_collection"},
                                           !.order = Append(@, <<"get_or_create_collection">>)]
                     /\ pc' = "tally"
                ELSE /\ orchestrator' = orchestrator
                     /\ brand_run' = [brand_run EXCEPT !.collection_id = r.value,
                                                       !.calls = {"get_or_create_collection"},
                                           !.order = Append(@, <<"get_or_create_collection">>)]
                     /\ pc' = "products"
    /\ UNCHANGED <<rcall, request, earlier_run,
                   shopify_connector, brands_to_process, brand_idx, history>>

\* one iteration of "for unified_product in final_products_to_sync"
SyncProduct ==
    /\ pc = "products"
    /\ brand_run.prod_idx <= Len(brand_run.final_products_to_sync)
    /\ \E env \in ProductEnvs :
         \E k \in {brand_run.prod_idx} :
         \E unified_product \in
                 {ensure_sku(brand_run.final_products_to_sync[k], brand_run.brand_name,
                             BRAND_CONFIG[brand_run.brand_name].api_type)} :
         \E r \in {sync_product(shopify_connector, shopify, writes, unified_product,
                                brand_run.collection_id, env)} :
             /\ shopify' = r.shopify
             /\ writes' = r.writes
             /\ brand_run' =
                   [brand_run EXCEPT
                       !.prod_idx = @ + 1,
                       !.product_sync_attempt_count = @ + 1,
                       !.product_sync_success_count = IF r.ok THEN @ + 1 ELSE @,
                       !.upserts = Append(@, r.ok),
                       !.created = @ \cup r.created,
                       !.calls = @ \cup r.calls,
                       !.order = Append(@, r.order),
                       !.faults = Append(@, r.faults),
                       !.final_products_to_sync[k] = record_catalog_id(unified_product, r)]
    /\ UNCHANGED <<rcall, request, earlier_run,
                   orchestrator, shopify_connector, brands_to_process, pc,
                   brand_idx, history>>

\* the brand fails as soon as one selected product failed
some_product_failed(final_products_to_sync, product_sync_success_count) ==
    final_products_to_sync # <<>> /\ product_sync_success_count < Len(final_products_to_sync)

\* the brand fails whenever no product succeeded, selected or not
no_product_succeeded(final_products_to_sync, product_sync_success_count) ==
    product_sync_success_count = 0

\* "if final_products_to_sync and product_sync_success_count == 0"
all_products_failed(final_products_to_sync, product_sync_success_count) ==
    final_products_to_sync # <<>> /\ product_sync_success_count = 0

\* after the loop: the brand fails when products were attempted and none succeeded
FinishBrand ==
    /\ pc = "products"
    /\ brand_run.prod_idx > Len(brand_run.final_products_to_sync)
    /\ orchestrator' =
          IF all_products_failed(brand_run.final_products_to_sync,
                                 brand_run.product_sync_success_count)
          THEN MarkFailed(orchestrator, brand_run.brand_name, "all selected products failed")
          ELSE orchestrator
    /\ pc' = "tally"
    /\ UNCHANGED <<rcall, request, earlier_run,
                   shopify_connector, shopify, brands_to_process, brand_idx,
                   brand_run, writes, history>>

\* run_full_sync after the call: a brand not in failed_brands_info is a success
TallyBrand ==
    /\ pc = "tally"
    /\ LET brand_name == brands_to_process[brand_idx]
           failed == brand_name \in DOMAIN orchestrator.failed_brands_info
       IN  /\ orchestrator' =
                 [orchestrator EXCEPT !.successful_brands_count =
                                          IF failed THEN @ ELSE @ + 1]
           /\ history' = Append(history, [brand_name |-> brand_name,
                                          outcome |-> IF failed THEN "failed"
                                                      ELSE "succeeded"])
    /\ brand_idx' = brand_idx + 1
    /\ pc' = IF brand_idx + 1 > Len(brands_to_process) THEN "done" ELSE "brand"
    /\ UNCHANGED <<rcall, request, earlier_run,
                   shopify_connector, shopify, brands_to_process, brand_run, writes>>

\* UnifiedProduct constructed twice, no sku supplied
Construct ==
    /\ rcall.op = "idle"
    /\ UNCHANGED <<ovars, cvars>>
    /\ \E b1, b2 \in SkuBrands, a1, a2 \in SkuSources, i1, i2 \in SkuProductIds,
          t1, t2 \in SkuTitles :
         \E r1 \in {UnifiedProduct(a1, i1, Str(b1), <<"6">>, Str(t1), Str(<<>>), 999,
                                    BuyLink, LiveImage, TRUE)} :
         \E r2 \in {UnifiedProduct(a2, i2, Str(b2), <<"6">>, Str(t2), Str(<<>>), 999,
                                    BuyLink, LiveImage, TRUE)} :
             rcall' = [op |-> "construct", first |-> r1.out[1], second |-> r2.out[1],
                       raised |-> FALSE, out |-> <<>>]

\* CJ feeds longer than the scan ceiling: "rejected" records the adapter turns
\* down (no link) followed by "valid" well-formed ones
LongFeedShapes ==
    {[rejected |-> MAX_RAW_PRODUCTS_TO_SCAN_FROM_FEED + 1, valid |-> 0],
     [rejected |-> MAX_RAW_PRODUCTS_TO_SCAN_FROM_FEED, valid |-> 2],
     [rejected |-> MAX_RAW_PRODUCTS_TO_SCAN_FROM_FEED - 1, valid |-> 1],
     [rejected |-> 0, valid |-> MAX_RAW_PRODUCTS_TO_SCAN_FROM_FEED + 2]}
LongFeedLen(shape) == shape.rejected + shape.valid
LongFeedRecord(shape, k) ==
    IF k <= shape.rejected
    THEN [CjValid(<<"C">>, T_TowerFan) EXCEPT !.link = Absent]
    ELSE CjValid(<<"A">>, T_TowerFan)

\* the limits run_sync_for_brand hands to a fetch: self.product_limit, or
\* test_fetch_limit_per_keyword in test mode with keywords
OrchestratorLimits ==
    {SyncOrchestrator(FALSE, test_mode, FALSE, product_limit, FALSE).product_limit :
        test_mode \in BOOLEAN, product_limit \in ProductLimits}
    \cup {TEST_FETCH_LIMIT_PER_KEYWORD}

\* fetch_cj_products as run_sync_for_brand calls it, answered with a long feed:
\* the state before the first pass of the loop
FetchLongFeed ==
    /\ rcall.op = "idle"
    /\ UNCHANGED <<ovars, cvars>>
    /\ \E shape \in LongFeedShapes, keywords_list \in {<<>>, <<T_fan>>, <<T_pot>>},
          limit \in OrchestratorLimits :
         rcall' = [op |-> "scanning", shape |-> shape, keywords_list |-> keywords_list,
                   limit |-> limit, i |-> 1, raised |-> FALSE, out |-> <<>>, handed |-> 0]

\* one pass of the loop over the long feed, or the return after the loop
ScanLongFeed ==
    /\ rcall.op = "scanning"
    /\ UNCHANGED <<ovars, cvars>>
    /\ IF rcall.i > LongFeedLen(rcall.shape)
       THEN rcall' = [rcall EXCEPT !.op = "fetch_long"]
       ELSE \E pass \in {cj_scan_record(LongFeedRecord(rcall.shape, rcall.i), rcall.i,
                                        rcall.out, rcall.handed, T_Dreo,
                                        rcall.keywords_list, rcall.limit, TRUE)} :
              rcall' = [rcall EXCEPT !.op = IF pass.stop THEN "fetch_long" ELSE "scanning",
                                     !.i = IF pass.stop THEN @ ELSE @ + 1,
                                     !.out = pass.out, !.handed = pass.handed]

\* _filter_products_by_keywords applied on its own to a list of products
FilterByKeywords ==
    /\ rcall.op = "idle"
    /\ UNCHANGED <<ovars, cvars>>
    /\ \E products \in SeqsUpTo(FilterProducts, MaxRaw), user_keywords \in KeywordLists :
         \E r \in {filter_products_by_keywords(products, user_keywords)} :
             rcall' = [op |-> "filter", products |-> products,
                       keywords_list |-> user_keywords, raised |-> FALSE, out |-> r]

-----------------------------------------------------------------------------
(* Specifications *)

Idle == [op |-> "idle"]

\* the orchestrator after construction, run_full_sync about to be called
Init ==
    /\ rcall = Idle
    /\ \E dry_run, test_mode, fetch_only \in BOOLEAN, product_limit \in ProductLimits :
         /\ orchestrator = SyncOrchestrator(dry_run, test_mode, fetch_only, product_limit,
                                            FALSE)
         /\ shopify_connector = IF fetch_only THEN NoConnector
                                ELSE ShopifyConnector(FALSE, FALSE)
    /\ shopify \in InitialCatalogs \cup {TwoCollectionsCatalog}
    /\ brands_to_process \in BrandLists
    /\ pc = "start"
    /\ brand_idx = 0
    /\ brand_run = NoRun
    /\ writes = {}
    /\ history = <<>>
    /\ earlier_run = NoRun
    /\ request = NoRequest

Next == RunFullSync \/ FetchAndSelect \/ EnsureCollection \/ SyncProduct
        \/ FinishBrand \/ TallyBrand

Spec == Init /\ [][Next]_vars

\* two calls of run_full_sync, one after the other, as the scheduled job makes
\* them: a normal run (no dry run, no test mode, no fetch only) of one brand, or
\* of two the first of which is not configured
RerunLists == {<<T_LeCreuset>>, <<T_Acme>>, <<T_Acme, T_Dreo>>}
InitRerun ==
    /\ rcall = Idle
    /\ orchestrator = SyncOrchestrator(FALSE, FALSE, FALSE, 0, FALSE)
    /\ shopify_connector = ShopifyConnector(FALSE, FALSE)
    /\ shopify \in InitialCatalogs
    /\ brands_to_process \in RerunLists
    /\ pc = "start"
    /\ brand_idx = 0
    /\ brand_run = NoRun
    /\ writes = {}
    /\ history = <<>>
    /\ earlier_run = NoRun
    /\ request = NoRequest

NextRerun == Next \/ RunFullSyncAgain

SpecRerun == InitRerun /\ [][NextRerun]_vars

\* _request_with_retry alone; the loop is sequential code, a round that can be
\* taken is taken (the sleep between rounds is finite)
InitRetry ==
    /\ rcall = Idle
    /\ orchestrator = SyncOrchestrator(FALSE, FALSE, FALSE, 0, FALSE)
    /\ shopify_connector = ShopifyConnector(FALSE, FALSE)
    /\ shopify = EmptyCatalog
    /\ brands_to_process = <<>>
    /\ pc = "off"
    /\ brand_idx = 0
    /\ brand_run = NoRun
    /\ writes = {}
    /\ history = <<>>
    /\ earlier_run = NoRun
    /\ request = NoRequest

NextRetry == CallRequest \/ Attempt

SpecRetry == InitRetry /\ [][NextRetry]_vars /\ WF_vars(Attempt)

\* the retriever alone: the orchestrator is not running
InitR ==
    /\ rcall = Idle
    /\ orchestrator = SyncOrchestrator(FALSE, FALSE, FALSE, 0, FALSE)
    /\ shopify_connector = ShopifyConnector(FALSE, FALSE)
    /\ shopify = EmptyCatalog
    /\ brands_to_process = <<>>
    /\ pc = "off"
    /\ brand_idx = 0
    /\ brand_run = NoRun
    /\ writes = {}
    /\ history = <<>>
    /\ earlier_run = NoRun
    /\ request = NoRequest

NextR == ConvertCJ \/ ConvertPJ \/ FetchCJ \/ FetchPJ \/ FilterByKeywords \/ Construct
         \/ FetchLongFeed \/ ScanLongFeed

SpecRetriever == InitR /\ [][NextR]_vars

-----------------------------------------------------------------------------
(* Properties of the adapters and of the retriever (under SpecRetriever) *)

MissingOrEmpty(x) == x.t \in {"absent", "null"} \/ x = Str(<<>>)

AdapterCall == rcall.op \in {"cj_adapter", "pj_adapter"}
FetchCall == rcall.op \in {"fetch_cj", "fetch_pj"}

\* the title, image URL, purchase URL and price value of the record handed to the
\* adapter, by source
CoreFields ==
    IF rcall.op = "cj_adapter"
    THEN {rcall.record.title, rcall.record.imageLink, rcall.record.link}
    ELSE {rcall.record.name, rcall.record.image_url, rcall.record.buy_url}

RecordPrice ==
    IF rcall.op = "pj_adapter" THEN rcall.record.price
    ELSE IF rcall.record.price.t = "obj" THEN rcall.record.amount
    ELSE Absent

\* C5: for both adapters, a record whose title (CJ 'title', publisher 'name'), image
\* URL or purchase URL is missing or empty yields no product, and nothing is raised.
C5_MissingCoreFieldYieldsNone ==
    (AdapterCall /\ \E x \in CoreFields : MissingOrEmpty(x))
        => (~rcall.raised /\ rcall.out = <<>>)

\* C6: for both adapters, a record whose price is absent, does not parse as a number
\* or is zero yields no product and raises nothing; no product of price 0 comes out.
C6_BadPriceYieldsNone ==
    AdapterCall =>
        /\ (~PyFloat(RecordPrice).ok \/ PyFloat(RecordPrice).cents = 0)
               => (~rcall.raised /\ rcall.out = <<>>)
        /\ \A k \in DOMAIN rcall.out : rcall.out[k].price # 0

\* the upstream status field of the record handed to the adapter, and the adapter
\* applied to that record with another status
RecordStatus ==
    IF rcall.op = "cj_adapter" THEN rcall.record.availability
    ELSE rcall.record.stock_availability
AdaptedWithStatus(status) ==
    IF rcall.op = "cj_adapter"
    THEN cj_product_to_unified([rcall.record EXCEPT !.availability = status],
                               T_Dreo, T_cj, rcall.skip)
    ELSE pepperjam_product_to_unified([rcall.record EXCEPT !.stock_availability = status],
                                      T_LeCreuset, <<"6", "2">>, rcall.skip)

NoStatus == RecordStatus \in {Absent, Null}

\* an absent or null status changes nothing in whether the record is converted
StatusNeverRejects ==
    (AdapterCall /\ NoStatus) =>
        /\ ~rcall.raised
        /\ (rcall.out = <<>>) = (AdaptedWithStatus(Str(T_in_stock)).out = <<>>)

\* the availability a converted record gets from its status
StatusDecidesAvailability ==
    AdapterCall =>
        \A k \in DOMAIN rcall.out :
            /\ (NoStatus \/ Lower(RecordStatus.v) = T_in_stock) => rcall.out[k].availability
            /\ RecordStatus \in {Str(T_out_of_stock), Str(T_unavailable)}
                   => ~rcall.out[k].availability

\* C24: both adapters set availability to true when the upstream status field is
\* absent, null or says 'in stock', and to false for every status string that
\* denotes a not-in-stock state (such as 'out of stock' or 'unavailable'); an
\* absent or null status never causes the record to be rejected or an exception
\* to be raised.
C24_AvailabilityFollowsTheStatus == StatusNeverRejects /\ StatusDecidesAvailability

\* the list of raw records a fetch scanned: the upstream list for CJ, the merged
\* records of the calls that succeeded for the publisher source
Scanned ==
    IF rcall.op = "fetch_cj"
    THEN (IF rcall.upstreams[1].kind = "ok" THEN rcall.upstreams[1].data ELSE <<>>)
    ELSE LET all_raw == pj_calls(api_call_keywords_terms(rcall.keywords_list),
                                 rcall.upstreams, 1, <<>>)
         IN  [k \in DOMAIN all_raw |-> all_raw[k].raw]

\* the conversion of one scanned record on its own
ConvertedAlone(rec) ==
    IF rcall.op = "fetch_cj"
    THEN cj_product_to_unified(rec, T_Dreo, T_cj, rcall.skip)
    ELSE pepperjam_product_to_unified(rec, T_LeCreuset, <<"6", "2">>, rcall.skip)

\* a malformed record: a null price object, a price that does not parse, or a
\* null availability
Malformed(rec) ==
    IF rcall.op = "fetch_cj"
    THEN \/ rec.price = Null
         \/ (rec.price = Obj /\ rec.amount.t = "str" /\ ~PyFloat(rec.amount).ok)
         \/ rec.availability = Null
    ELSE \/ (rec.price.t = "str" /\ ~PyFloat(rec.price).ok)
         \/ rec.stock_availability = Null

\* C7: in one retriever call, a malformed record at position i is skipped and every
\* valid record at a later position is still converted and returned, up to the
\* target count (here: no keyword filter, and no more valid records than the target).
C7_BadRecordDoesNotEndTheScan ==
    (/\ FetchCall
     /\ rcall.keywords_list = <<>>
     /\ Cardinality({j \in DOMAIN Scanned : ConvertedAlone(Scanned[j]).out # <<>>})
            <= rcall.limit)
        => \A i, j \in DOMAIN Scanned :
               (i < j /\ Malformed(Scanned[i]) /\ ConvertedAlone(Scanned[j]).out # <<>>)
                   => \E k \in DOMAIN rcall.out :
                          rcall.out[k].source_product_id
                              = ConvertedAlone(Scanned[j]).out[1].source_product_id

\* the upstream IDs of the records the successful upstream calls delivered
DeliveredIds ==
    UNION {{PyStr(rcall.upstreams[c].data[j].id) : j \in DOMAIN rcall.upstreams[c].data} :
              c \in {d \in DOMAIN rcall.upstreams : rcall.upstreams[d].kind = "ok"}}

\* C8: fetch_cj_products and fetch_pepperjam_products never raise to the caller:
\* whatever the upstream does they return a list, and a call that failed
\* contributes no product to it.
C8_FetchNeverRaises ==
    FetchCall =>
        /\ ~rcall.raised
        /\ \A k \in DOMAIN rcall.out : rcall.out[k].source_product_id \in DeliveredIds

\* C8 happens: the upstream call of fetch_cj_products raised, or one of its records
\* made the adapter raise, and the fetch still returned its list
C8_Witness ==
    /\ rcall.op = "fetch_cj"
    /\ ~rcall.raised
    /\ \/ rcall.upstreams[1].kind = "raise" /\ rcall.out = <<>>
       \/ /\ rcall.upstreams[1].kind = "ok"
          /\ Len(rcall.out) = 1
          /\ \E j \in DOMAIN Scanned : ConvertedAlone(Scanned[j]).raised

\* the records of all answers of the upstream, and the products returned
AnsweredRecords ==
    UNION {{<<c, j>> : j \in DOMAIN rcall.upstreams[c].data} : c \in DOMAIN rcall.upstreams}
ReturnedIds == {rcall.out[k].source_product_id : k \in DOMAIN rcall.out}

\* C23: fetch_pepperjam_products issues one upstream request per keyword phrase
\* (one keyword-less request without keywords); a request answered with status 200
\* and valid records contributes those records to the output (here: the target
\* count is not below the number of records answered), and a request that fails
\* contributes nothing and discards nothing of the other requests.
C23_EveryAnsweredRequestContributes ==
    (rcall.op = "fetch_pj" /\ rcall.limit >= Cardinality(AnsweredRecords)) =>
        /\ Len(rcall.upstreams) = IF rcall.keywords_list = <<>> THEN 1
                                  ELSE Len(rcall.keywords_list)
        /\ \A c \in DOMAIN rcall.upstreams :
               rcall.upstreams[c].kind = "ok" =>
                   \A j \in DOMAIN rcall.upstreams[c].data :
                       LET alone == ConvertedAlone(rcall.upstreams[c].data[j])
                       IN  alone.out # <<>> => alone.out[1].source_product_id \in ReturnedIds
        /\ ReturnedIds \subseteq DeliveredIds

C9_AtMostTheTargetCount ==
    FetchCall => Len(rcall.out) <= rcall.limit

\* C10: the list one retriever call returns never holds two products of the same
\* upstream ID, and the product of an ID is built from its first occurrence (the
\* latter stated for calls without keyword filter, where no occurrence is skipped).
C10_OneProductPerUpstreamId ==
    FetchCall =>
        /\ \A a, b \in DOMAIN rcall.out :
               a # b => rcall.out[a].source_product_id # rcall.out[b].source_product_id
        /\ \A k \in DOMAIN rcall.out :
               rcall.keywords_list = <<>> =>
               LET same == {j \in DOMAIN Scanned :
                               PyStr(Scanned[j].id) = rcall.out[k].source_product_id}
                   first == CHOOSE j \in same : \A h \in same : j <= h
               IN  /\ same # {}
                   /\ ConvertedAlone(Scanned[first]).out # <<>>
                          => rcall.out[k].title = ConvertedAlone(Scanned[first]).out[1].title

\* the text of a title or description: a missing or null one has none
TextOf(x) == IF x.t = "str" THEN x.v ELSE <<>>

\* the phrases of the call's keyword list that occur, case-insensitively and
\* contiguously, in the title or in the description
PhrasesOf(keywords, title, description) ==
    SelectSeq(keywords,
              LAMBDA phrase : \/ Contains(Lower(phrase), Lower(TextOf(title)))
                              \/ Contains(Lower(phrase), Lower(TextOf(description))))
PhrasesIn(title, description) == PhrasesOf(rcall.keywords_list, title, description)

\* the products of the list that hold a phrase, each tagged with its phrases
KeptAndTagged(products) ==
    LET tagged == [k \in DOMAIN products |->
                      [products[k] EXCEPT !.keywords_matched =
                          PhrasesIn(products[k].title, products[k].description)]]
    IN  SelectSeq(tagged, LAMBDA q : q.keywords_matched # <<>>)

\* C11: with a non-empty keyword list, both keyword filters keep a record if and only
\* if a phrase occurs, case-insensitively and contiguously, in its title or its
\* description, and tag a kept record with exactly the phrases that occur, in the
\* order supplied (for fetch_cj_products: over lists whose records all convert
\* without raising and hold no more matching records than the target).
C11_KeywordFilterKeepsExactlyTheMatches ==
    /\ (rcall.op = "filter" /\ rcall.keywords_list # <<>>)
           => rcall.out = KeptAndTagged(rcall.products)
    /\ (/\ rcall.op = "fetch_cj"
        /\ rcall.keywords_list # <<>>
        /\ \A j \in DOMAIN Scanned : ~ConvertedAlone(Scanned[j]).raised
        /\ Cardinality({j \in DOMAIN Scanned :
                           PhrasesIn(Scanned[j].title, Scanned[j].description) # <<>>})
               <= rcall.limit)
           => rcall.out = KeptAndTagged(
                  LET ok == SelectSeq(Scanned, LAMBDA rec : ConvertedAlone(rec).out # <<>>)
                  IN  [k \in DOMAIN ok |-> ConvertedAlone(ok[k]).out[1]])

\* the brand name and the source the configuration supplies to the adapter call
ConfiguredBrand == IF rcall.op = "cj_adapter" THEN T_Dreo ELSE T_LeCreuset
ConfiguredSource == IF rcall.op = "cj_adapter" THEN T_cj ELSE T_pepperjam

\* C13: the brand_name of an adapter's output is the configured brand name, and its
\* SKU is the one derived from the configured brand, the source and the upstream
\* product ID, whatever the record's display fields (advertiserName, program_name).
C13_SkuFromConfiguredBrandOnly ==
    (AdapterCall /\ rcall.out # <<>>) =>
        /\ rcall.out[1].brand_name = ConfiguredBrand
        /\ rcall.out[1].sku = DerivedSku(ConfiguredBrand, ConfiguredSource,
                                         rcall.out[1].source_product_id)

\* the identity triple of a product
Triple(q) == <<q.brand_name, q.source_api, q.source_product_id>>

\* C14: two UnifiedProducts given no SKU that differ in brand_name, source_api or
\* source_product_id never get the same derived sku.
C14_SkuInjectiveOnTheTriple ==
    (rcall.op = "construct" /\ Triple(rcall.first) # Triple(rcall.second))
        => rcall.first.sku # rcall.second.sku

\* the sku as the text gives it: upper-cased brand with spaces replaced by '_' and
\* dots removed, '-', upper-cased source, '-', source_product_id
SkuText(q) ==
    ReplaceChar(ReplaceChar(Upper(q.brand_name), " ", <<"_">>), ".", <<>>)
        \o <<"-">> \o Upper(q.source_api) \o <<"-">> \o q.source_product_id

\* C15: the derived sku is a function of (brand_name, source_api, source_product_id)
\* alone: two constructions with the same three values give the same sku, whatever
\* the other fields are, and the sku is the upper-cased brand (spaces to '_', dots
\* removed), '-', the upper-cased source, '-', the source_product_id.
C15_SkuIsAFunctionOfTheTriple ==
    rcall.op = "construct" =>
        /\ Triple(rcall.first) = Triple(rcall.second) => rcall.first.sku = rcall.second.sku
        /\ rcall.first.sku = SkuText(rcall.first)
        /\ rcall.second.sku = SkuText(rcall.second)

\* C15 happens: the same triple with two different titles, a brand with a space and
\* an id with a space, and one sku
C15_Witness ==
    /\ rcall.op = "construct"
    /\ Triple(rcall.first) = <<T_LeCreuset, T_cj, <<"A", " ", "1">> >>
    /\ Triple(rcall.second) = Triple(rcall.first)
    /\ rcall.first.title # rcall.second.title
    /\ rcall.first.sku = rcall.second.sku

-----------------------------------------------------------------------------
(* Properties of the orchestrator (under Spec) *)

FailedBrands == DOMAIN orchestrator.failed_brands_info
NoUpsertSucceeded == \A k \in DOMAIN brand_run.upserts : ~brand_run.upserts[k]
SelectedCount == Len(brand_run.final_products_to_sync)

\* run_sync_for_brand has returned for brand_run's brand
BrandRunOver == pc \in {"tally", "brand", "done"} /\ brand_run.brand_name # <<>>
\* and run_full_sync has tallied it: it is the last entry of history
BrandTallied == pc \in {"brand", "done"} /\ history # <<>>
LastOutcome == history[Len(history)].outcome

\* C1: with the dry-run flag no write reaches the catalog sink: no collection is
\* created or updated, no product created or updated, no product added to a
\* collection, no metadata field set.
C1_DryRunWritesNothing ==
    orchestrator.dry_run => writes = {}

\* C2: for a brand with n >= 1 products selected for sync, the brand is recorded as
\* failed if and only if all its upserts failed; with one success it is not in the
\* failure map and run_full_sync counts it as succeeded; and a failed upsert never
\* keeps the remaining selected products from being attempted.
C2_FailedIffEveryUpsertFailed ==
    (BrandRunOver /\ ~orchestrator.fetch_only /\ SelectedCount >= 1) =>
        /\ brand_run.brand_name \in FailedBrands <=> NoUpsertSucceeded
        /\ brand_run.collection_id # 0 => Len(brand_run.upserts) = SelectedCount
        /\ pc # "tally" => (LastOutcome = "succeeded" <=> ~NoUpsertSucceeded)

\* C2 happens: of two selected products the first failed and the second was still
\* attempted and succeeded, and the brand is counted as succeeded
C2_Witness ==
    /\ pc = "done"
    /\ brand_run.upserts = <<FALSE, TRUE>>
    /\ brand_run.brand_name \notin FailedBrands
    /\ LastOutcome = "succeeded"

\* C3 as stated: a brand that ends its run with zero successful upserts is recorded
\* as failed with a reason and not counted as succeeded, also when the filters
\* left nothing selected.
C3_ZeroUpsertsMeansFailed ==
    (BrandTallied /\ ~orchestrator.fetch_only /\ NoUpsertSucceeded) =>
        /\ brand_run.brand_name \in FailedBrands
        /\ orchestrator.failed_brands_info[brand_run.brand_name] # ""
        /\ LastOutcome = "failed"

\* C3, amended: outside fetch-only mode, a brand is recorded as failed with a reason
\* when it fetched nothing (or is unknown) or when at least one product was selected
\* and no upsert succeeded; a brand whose fetched products were all filtered out, so
\* that nothing was selected, is not failed: it is counted as succeeded.
C3_FailedOnlyWhenSomethingWasSelected ==
    (BrandTallied /\ ~orchestrator.fetch_only) =>
        /\ (brand_run.raw_count = 0 \/ (SelectedCount >= 1 /\ NoUpsertSucceeded))
               => /\ brand_run.brand_name \in FailedBrands
                  /\ orchestrator.failed_brands_info[brand_run.brand_name] # ""
                  /\ LastOutcome = "failed"
        /\ (brand_run.raw_count > 0 /\ SelectedCount = 0 /\ brand_run.collection_id # 0)
               => /\ brand_run.brand_name \notin FailedBrands
                  /\ LastOutcome = "succeeded"

\* C3 (amended) happens: products were fetched, the availability filter removed
\* them all, and the brand was counted as succeeded without any upsert
C3_Witness ==
    /\ BrandTallied
    /\ ~orchestrator.fetch_only
    /\ brand_run.raw_count > 0
    /\ SelectedCount = 0
    /\ brand_run.upserts = <<>>
    /\ LastOutcome = "succeeded"

\* C4: run_full_sync processes every brand of its list exactly once, in list order,
\* and each reaches an outcome whatever happened to the brands before it; a brand
\* absent from the configuration yields a failure entry with a reason; no exception
\* escapes run_sync_for_brand.
C4_EveryBrandOnceInOrder ==
    /\ pc # "crashed"
    /\ Len(history) <= Len(brands_to_process)
    /\ \A k \in DOMAIN history :
           /\ history[k].brand_name = brands_to_process[k]
           /\ history[k].outcome \in {"succeeded", "failed"}
           /\ history[k].brand_name \notin DOMAIN BRAND_CONFIG
                  => /\ history[k].outcome = "failed"
                     /\ history[k].brand_name \in FailedBrands
                     /\ orchestrator.failed_brands_info[history[k].brand_name] # ""
    /\ pc \in {"brand", "collection", "products", "tally"}
           => brand_idx = Len(history) + 1 /\ brand_idx <= Len(brands_to_process)
    /\ pc = "done" => Len(history) = Len(brands_to_process)

\* C4 happens: an unknown brand failed first, and the configured brand after it was
\* still processed and succeeded
C4_Witness ==
    /\ pc = "done"
    /\ Len(history) = 2
    /\ history[1].brand_name \notin DOMAIN BRAND_CONFIG
    /\ history[1].outcome = "failed"
    /\ history[2].outcome = "succeeded"

\* the SKUs of the products of a catalog
SkusOf(store) == {store.products[q].sku : q \in DOMAIN store.products}

NoTwoProductsShareASku ==
    \A q, r \in DOMAIN shopify.products :
        q # r => shopify.products[q].sku # shopify.products[r].sku

\* a step creates at most one product, in the product loop, for the product at hand
\* and only when the catalog held none of its SKU; no product is ever removed
CreatesOnlyAnAbsentSku ==
    /\ Len(shopify'.products) >= Len(shopify.products)
    /\ Len(shopify'.products) > Len(shopify.products)
           => /\ pc = "products"
              /\ Len(shopify'.products) = Len(shopify.products) + 1
              /\ shopify'.products[Len(shopify'.products)].sku
                     = brand_run.final_products_to_sync[brand_run.prod_idx].sku
              /\ shopify'.products[Len(shopify'.products)].sku \notin SkusOf(shopify)

\* C12: over a sequence of brand runs, also on a catalog an earlier run filled and
\* with a selection holding one SKU twice, a product is created only when the
\* lookup by SKU found none; the catalog never holds two products of one SKU, and a
\* product whose SKU the catalog already holds is updated, not created again.
C12_OneProductPerSku ==
    [] NoTwoProductsShareASku /\ [][CreatesOnlyAnAbsentSku]_vars

\* C12 happens: the selection held one SKU twice, both upserts succeeded, and the
\* catalog holds one product of that SKU
C12_Witness ==
    /\ pc = "done"
    /\ Len(brand_run.final_products_to_sync) = 2
    /\ brand_run.final_products_to_sync[1].sku = brand_run.final_products_to_sync[2].sku
    /\ brand_run.upserts = <<TRUE, TRUE>>
    /\ Cardinality({q \in DOMAIN shopify.products :
                       shopify.products[q].sku = brand_run.final_products_to_sync[1].sku}) = 1

\* the selected products counted as synced in the brand run that is over
CountedAsSynced == {k \in DOMAIN brand_run.upserts : brand_run.upserts[k]}

\* C16: at the end of a brand run, every product counted as successfully synced,
\* created or updated, has the affiliate-link metafield of its catalog product set to
\* its product_url; a product whose metafield write failed is not counted.
C16_SyncedProductsCarryTheAffiliateLink ==
    BrandRunOver =>
        \A k \in CountedAsSynced :
            <<brand_run.final_products_to_sync[k].shopify_product_id,
              METAFIELD_KEY_AFFILIATE_LINK,
              brand_run.final_products_to_sync[k].product_url>> \in shopify.metafields

\* C17: every product the orchestrator creates is a draft, and every created product
\* counted as successfully synced is a member of the brand's review collection at
\* the end of the run.
C17_CreatedProductsAreDraftsInTheCollection ==
    /\ \A id \in brand_run.created : ~shopify.products[id].published
    /\ BrandRunOver =>
           \A k \in CountedAsSynced :
               brand_run.final_products_to_sync[k].shopify_product_id \in brand_run.created
                   => <<brand_run.final_products_to_sync[k].shopify_product_id,
                        brand_run.collection_id>> \in shopify.collects

\* the catalog product the lookup by SKU finds for the product at hand (0: none)
FoundBySku ==
    LET sku == brand_run.final_products_to_sync[brand_run.prod_idx].sku
        found == {q \in DOMAIN shopify.products : shopify.products[q].sku = sku}
    IN  IF found = {} THEN 0 ELSE CHOOSE q \in found : \A r \in found : q <= r

CollectionsOf(store, id) == {c \in store.collects : c[1] = id}

\* an iteration of the product loop on a product whose SKU a published catalog
\* product carries leaves that product published, under its SKU and in exactly the
\* collections it was in, and creates no product
PublishedProductKeepsItsPlace ==
    (/\ pc = "products"
     /\ brand_run.prod_idx <= Len(brand_run.final_products_to_sync)
     /\ FoundBySku # 0
     /\ shopify.products[FoundBySku].published)
        => /\ Len(shopify'.products) = Len(shopify.products)
           /\ shopify'.products[FoundBySku].published
           /\ shopify'.products[FoundBySku].sku = shopify.products[FoundBySku].sku
           /\ CollectionsOf(shopify', FoundBySku) = CollectionsOf(shopify, FoundBySku)

\* C18: when the lookup by SKU finds a published catalog product, the sync changes
\* its data fields only: its publish status is unchanged and it is neither added to
\* nor removed from any collection.
C18_PublishedProductOnlyGetsData ==
    [][PublishedProductKeepsItsPlace]_vars

\* C18 happens: the published product of the catalog got the upstream title, and is
\* still published and in no collection
C18_Witness ==
    /\ pc = "done"
    /\ "product_update" \in writes
    /\ Len(shopify.products) >= 1
    /\ shopify.products[1].published
    /\ shopify.products[1].title = Str(T_TowerFan)
    /\ CollectionsOf(shopify, 1) = {}

ProductCalls == {"get_product_by_sku", "create_product", "update_product",
                 "add_product_to_collection", "set_product_metafield"}

\* the brand run that is over ended before the product stage
NothingFetched == brand_run.brand_name \in DOMAIN BRAND_CONFIG /\ brand_run.raw_count = 0
NoCollection == brand_run.raw_count > 0 /\ brand_run.collection_id = 0

\* C19: a brand that fails before the product stage, because the retriever returned
\* no product or because the review collection could not be found or created, is
\* recorded as failed with a reason and no product lookup, create, update,
\* collection-add or metafield call is issued for it; when nothing was fetched, no
\* catalog call at all is issued for it.
C19_EarlyFailureIssuesNoProductCall ==
    (BrandRunOver /\ ~orchestrator.fetch_only /\ (NothingFetched \/ NoCollection)) =>
        /\ brand_run.brand_name \in FailedBrands
        /\ orchestrator.failed_brands_info[brand_run.brand_name] # ""
        /\ brand_run.calls \cap ProductCalls = {}
        /\ brand_run.upserts = <<>>
        /\ NothingFetched => brand_run.calls = {}

\* C19 happens: of two brands the first failed and the second, with products
\* selected, could not get its collection
C19_Witness ==
    /\ pc = "done"
    /\ Len(history) = 2
    /\ history[1].outcome = "failed"
    /\ NoCollection
    /\ brand_run.final_products_to_sync # <<>>
    /\ brand_run.calls = {"get_or_create_collection"}

\* the retriever results that are available and, when keywords were given, hold a
\* phrase (tagged with their phrases), in retriever order
Eligible ==
    LET available == SelectSeq(brand_run.raw_api_products, LAMBDA q : q.availability)
        tagged == [k \in DOMAIN available |->
                      [available[k] EXCEPT !.keywords_matched =
                          PhrasesOf(brand_run.user_keywords, available[k].title,
                                    available[k].description)]]
    IN  IF brand_run.user_keywords = <<>> THEN available
        ELSE SelectSeq(tagged, LAMBDA q : q.keywords_matched # <<>>)

\* the selection as it was made, before the loop noted the catalog ids
Selected ==
    [k \in DOMAIN brand_run.final_products_to_sync |->
        [brand_run.final_products_to_sync[k] EXCEPT !.shopify_product_id = 0]]

Smaller(a, b) == IF a <= b THEN a ELSE b

\* C20: in a normal (non-test) brand run, the products handed to the catalog are
\* exactly the first min(target, k) of the k retriever results that are available
\* and pass the keyword filter (all available ones without keywords), in retriever
\* order; no unavailable product is handed over, and never more than the target.
C20_SelectionIsTheFirstEligibleProducts ==
    (~orchestrator.test_mode /\ brand_run.raw_count > 0) =>
        /\ Selected = SubSeq(Eligible, 1, Smaller(orchestrator.product_limit, Len(Eligible)))
        /\ \A k \in DOMAIN brand_run.final_products_to_sync :
               brand_run.final_products_to_sync[k].availability
        /\ Len(brand_run.final_products_to_sync) <= orchestrator.product_limit
        /\ Len(brand_run.upserts) <= orchestrator.product_limit

\* C20 happens: in a normal run the retriever gave an out-of-stock product and an
\* available one, and only the available one was handed to the catalog and written
C20_Witness ==
    /\ ~orchestrator.test_mode
    /\ pc = "done"
    /\ Len(brand_run.raw_api_products) = 2
    /\ ~brand_run.raw_api_products[1].availability
    /\ Len(brand_run.final_products_to_sync) = 1
    /\ brand_run.final_products_to_sync[1].source_product_id
           = brand_run.raw_api_products[2].source_product_id
    /\ brand_run.upserts = <<TRUE>>

\* the calls of one product come in the order given by the list "steps": a call
\* named later in the list is never made before one named earlier
InOrder(stage, steps) ==
    \A i, j \in DOMAIN stage :
        \A a, b \in DOMAIN steps :
            (stage[i] \in steps[a] /\ stage[j] \in steps[b] /\ a < b) => i < j

Upsert == {"create_product", "update_product"}

FetchBeforeCatalog ==
    brand_run.order # <<>> =>
        /\ brand_run.order[1] = <<"fetch_products">>
        /\ \A n \in 2..Len(brand_run.order) : "fetch_products" \notin
               {brand_run.order[n][i] : i \in DOMAIN brand_run.order[n]}

CollectionBeforeProducts ==
    \A n \in 2..Len(brand_run.order) :
        IF n = 2 THEN brand_run.order[n] = <<"get_or_create_collection">>
        ELSE brand_run.order[n][1] = "get_product_by_sku"

\* C21: within one brand run the upstream fetch completes before the first catalog
\* call, the review collection is ensured before any product is created or updated,
\* and for every product, created or updated, the catalog calls occur in the order
\* upsert, then add-to-collection, then set-metadata.
C21_StepsOfABrandRunAreOrdered ==
    /\ FetchBeforeCatalog
    /\ CollectionBeforeProducts
    /\ \A n \in 3..Len(brand_run.order) :
           InOrder(brand_run.order[n], <<Upsert, {"add_product_to_collection"},
                                         {"set_product_metafield"}>>)

\* the records of the feeds, and the products the adapter of the brand's source
\* constructs from them
FeedRecords ==
    UNION {{feed.data[i] : i \in DOMAIN feed.data} : feed \in OrchestratorFeeds}
Adapted(raw, brand_name) ==
    IF BRAND_CONFIG[brand_name].api_type = T_cj
    THEN cj_product_to_unified(raw, brand_name, T_cj, orchestrator.skip_image_validation)
    ELSE pepperjam_product_to_unified(raw, brand_name, BRAND_CONFIG[brand_name].id,
                                      orchestrator.skip_image_validation)

\* the product but for the two fields a brand run may change
FrameOf(unified_product) ==
    [unified_product EXCEPT !.keywords_matched = <<>>, !.shopify_product_id = 0]

\* the products of the run are as the adapter constructed them from a record of
\* the feed, but for the two fields
ProductsAreAsConstructed ==
    \A k \in DOMAIN brand_run.final_products_to_sync :
        LET unified_product == brand_run.final_products_to_sync[k]
        IN  \E raw \in FeedRecords :
                /\ PyStr(Get(raw.id)) = unified_product.source_product_id
                /\ Get(raw.title) = unified_product.title
                /\ Adapted(raw, brand_run.brand_name) = Return(FrameOf(unified_product))

\* the upsert call of the k-th product returned a catalog product
UpsertReturned(k) ==
    /\ k \in DOMAIN brand_run.faults
    /\ \E n \in DOMAIN brand_run.order[k + 2] : brand_run.order[k + 2][n] \in Upsert
    /\ brand_run.faults[k] \cap (Upsert \cup {"get_product_by_sku"}) = {}

CatalogIdOnlyAfterTheUpsert ==
    \A k \in DOMAIN brand_run.final_products_to_sync :
        LET unified_product == brand_run.final_products_to_sync[k]
            id == unified_product.shopify_product_id
        IN  /\ id # 0 => UpsertReturned(k)
            /\ (id # 0 /\ ~shopify_connector.dry_run) =>
                   /\ id \in DOMAIN shopify.products
                   /\ shopify.products[id].sku = unified_product.sku

\* C28: after its construction a UnifiedProduct is changed during a brand run only
\* in keywords_matched and in its catalog product ID: the catalog ID is set only
\* after the create or update call for that product returned a catalog product, it
\* stays unset for a product whose upsert failed, and no other field (title, price,
\* sku, product_url, availability and so on) changes.
C28_OnlyKeywordsAndCatalogIdChange ==
    /\ ProductsAreAsConstructed
    /\ CatalogIdOnlyAfterTheUpsert

\* C28 happens: of two selected products the first was found but its update
\* failed and it has no catalog ID, the second was created and carries the ID of
\* the product created for it
C28_Witness ==
    /\ pc = "done"
    /\ ~shopify_connector.dry_run
    /\ Len(brand_run.final_products_to_sync) = 2
    /\ Len(brand_run.faults) = 2
    /\ "update_product" \in brand_run.faults[1]
    /\ brand_run.final_products_to_sync[1].shopify_product_id = 0
    /\ brand_run.final_products_to_sync[2].shopify_product_id \in brand_run.created
    /\ C28_OnlyKeywordsAndCatalogIdChange

\* the brand run made no call of the catalog connector, read or write
NoCatalogCall ==
    /\ pc \notin {"collection", "products"}
    /\ Len(brand_run.order) <= 1
    /\ brand_run.calls = {}
    /\ brand_run.collection_id = 0
    /\ writes = {}

\* the brand run that just returned had fetched at least one product
FetchedSomething ==
    /\ pc \in {"tally", "done"}
    /\ brand_run.brand_name \in DOMAIN BRAND_CONFIG
    /\ brand_run.raw_count >= 1

\* C30: in fetch-only mode no catalog connector is constructed and every brand run
\* returns after the export step, so no catalog call, read or write, is ever
\* issued; a configured brand for which at least one product was fetched is not
\* recorded as failed.
C30_FetchOnlyNeverTouchesTheCatalog ==
    orchestrator.fetch_only =>
        /\ shopify_connector = NoConnector
        /\ NoCatalogCall
        /\ FetchedSomething =>
               brand_run.brand_name \notin DOMAIN orchestrator.failed_brands_info

\* C30 happens: a fetch-only call returned on a catalog that holds products, its
\* last brand had products fetched and exported and was counted as succeeded
C30_Witness ==
    /\ orchestrator.fetch_only
    /\ pc = "done"
    /\ shopify.products # <<>>
    /\ brand_run.raw_count >= 1
    /\ brand_run.exported # <<>>
    /\ LastOutcome = "succeeded"
    /\ shopify_connector = NoConnector
    /\ writes = {}

-----------------------------------------------------------------------------
(* Claims about a brand run repeated (SpecRerun) *)

FollowUp == {"add_product_to_collection", "set_product_metafield"}

\* the selected products of the earlier run that were created and whose
\* add-to-collection or set-metadata step then failed
Stranded ==
    {k \in DOMAIN earlier_run.faults :
        /\ \E n \in DOMAIN earlier_run.order[k + 2] :
               earlier_run.order[k + 2][n] = "create_product"
        /\ "create_product" \notin earlier_run.faults[k]
        /\ earlier_run.faults[k] \cap FollowUp # {}}

\* the later run of the brand is over, had the same upstream data, and none of
\* its calls failed
RepeatedWithoutFailure ==
    /\ pc = "done"
    /\ earlier_run # NoRun
    /\ brand_run.brand_name = earlier_run.brand_name
    /\ brand_run.raw_api_products = earlier_run.raw_api_products
    /\ brand_run.user_keywords = earlier_run.user_keywords
    /\ brand_run.collection_id # 0
    /\ Len(brand_run.faults) = Len(brand_run.final_products_to_sync)
    /\ \A k \in DOMAIN brand_run.faults : brand_run.faults[k] = {}

\* C22: if in one brand run a product was created but the add-to-collection or
\* the set-metadata step that follows failed, then a later run of the same brand
\* over the same upstream data in which no call fails creates no second product
\* for that SKU and ends with that (still draft) product in the review collection
\* and with its affiliate-link metadata set.
C22_RetryCompletesAStrandedProduct ==
    RepeatedWithoutFailure =>
        \A k \in Stranded :
            LET unified_product == earlier_run.final_products_to_sync[k]
                found == {q \in DOMAIN shopify.products :
                             shopify.products[q].sku = unified_product.sku}
            IN  /\ Cardinality(found) = 1
                /\ \A q \in found :
                       /\ ~shopify.products[q].published
                       /\ <<q, brand_run.collection_id>> \in shopify.collects
                       /\ <<q, METAFIELD_KEY_AFFILIATE_LINK, unified_product.product_url>>
                              \in shopify.metafields

\* C22 happens: the earlier run created a product and failed to put it into the
\* collection and to set its metadata; the later run, without failure, is over
C22_Witness ==
    /\ RepeatedWithoutFailure
    /\ \E k \in Stranded : earlier_run.faults[k] = FollowUp

\* the brands the loop of this call counted as succeeded
CountedSucceeded ==
    {history[n].brand_name : n \in {m \in DOMAIN history : history[m].outcome = "succeeded"}}

\* the call is past the reset and before the first brand
RunFullSyncStarted ==
    \/ pc = "brand" /\ brand_idx = 1
    \/ pc = "done" /\ brands_to_process = <<>>

TalliesAreReset ==
    RunFullSyncStarted =>
        /\ orchestrator.successful_brands_count = 0
        /\ DOMAIN orchestrator.failed_brands_info = {}

TalliesAddUp ==
    pc = "done" =>
        /\ orchestrator.successful_brands_count
               + Cardinality(DOMAIN orchestrator.failed_brands_info)
             = Len(brands_to_process)
        /\ orchestrator.successful_brands_count = Cardinality(CountedSucceeded)
        /\ CountedSucceeded \cap DOMAIN orchestrator.failed_brands_info = {}
        /\ \A brand \in DOMAIN orchestrator.failed_brands_info :
               orchestrator.failed_brands_info[brand] # ""

\* C29: run_full_sync resets both tallies at its start, and when it returns after
\* processing a list of distinct brand names, successful_brands_count plus the
\* number of entries of failed_brands_info equals the number of brands in the
\* list, no brand is counted both as succeeded and as failed, and every failure
\* entry carries a non-empty reason.
C29_TalliesCoverEveryBrandOnce ==
    /\ TalliesAreReset
    /\ TalliesAddUp

\* C29 happens: the second call returned with its one configured brand succeeded
\* and the other failed, after an earlier call in which the configured brand had
\* failed
C29_Witness ==
    /\ pc = "done"
    /\ earlier_run # NoRun
    /\ brands_to_process = <<T_Acme, T_Dreo>>
    /\ Len(earlier_run.upserts) = 1
    /\ ~earlier_run.upserts[1]
    /\ orchestrator.successful_brands_count = 1
    /\ DOMAIN orchestrator.failed_brands_info = {T_Acme}

-----------------------------------------------------------------------------
(* Claims about _request_with_retry (SpecRetry) *)

RequestOver == request.status \in {"returned", "raised"}

AtMostMaxRetriesInvocations == Len(request.answers) <= MAX_RETRIES

\* every invocation but the last answered with a rate limit or a server error
RetriesOnlyAfterTransientErrors ==
    \A n \in 1..(Len(request.answers) - 1) : request.answers[n] \in {"429", "server"}

\* a raise hands on the error of the last invocation; a transient one only when
\* the attempts are used up, any other at once
RaisesTheLastError ==
    request.status = "raised" =>
        /\ request.answers # <<>>
        /\ request.error = request.answers[Len(request.answers)]
        /\ request.error # "ok"
        /\ request.error \in {"429", "server"} => Len(request.answers) = MAX_RETRIES
ReturnsOnlyWhatTheCallReturned ==
    request.status = "returned" =>
        \/ request.dry_run /\ request.func \in MockedInDryRun /\ request.answers = <<>>
        \/ request.answers # <<>> /\ request.answers[Len(request.answers)] = "ok"
NeverGivesUpSilently ==
    (request.status = "running" /\ request.answers # <<>>) =>
        request.answers[Len(request.answers)] \in {"429", "server"}

\* C25: _request_with_retry terminates for every behaviour of the wrapped call: it
\* invokes the call at most MAX_RETRIES (3) times, retries only after a rate-limit
\* (429) response or a server error, re-raises the last error once the attempts
\* are used up, and re-raises any other client error after a single attempt.
C25_RetryIsBoundedAndTerminates ==
    /\ [](/\ AtMostMaxRetriesInvocations
          /\ RetriesOnlyAfterTransientErrors
          /\ RaisesTheLastError
          /\ ReturnsOnlyWhatTheCallReturned
          /\ NeverGivesUpSilently)
    /\ (request.status = "running") ~> RequestOver

\* C25 happens: three invocations answered with a rate limit, a server error and
\* a rate limit, and the last error was raised
C25_Witness ==
    /\ request.status = "raised"
    /\ request.answers = <<"429", "server", "429">>
    /\ request.error = "429"

-----------------------------------------------------------------------------
(* Claims about the review collection (Spec) *)

\* the collections that carry the handle or the title of the brand's collection
OfHandle(store, brand_name) ==
    {c \in DOMAIN store.collections :
        store.collections[c].handle = master_collection_handle(brand_name)}
OfTitle(store, brand_name) ==
    {c \in DOMAIN store.collections :
        store.collections[c].title = master_collection_title(brand_name)}
ReviewCollections(store, brand_name) == OfHandle(store, brand_name) \cup OfTitle(store, brand_name)

First(S) == CHOOSE c \in S : \A d \in S : c <= d

\* the step in which run_sync_for_brand calls get_or_create_collection
CollectionCall == pc = "collection" /\ pc' # "collection"
CollectionReturned == CollectionCall /\ pc' = "products"

\* an existing collection is returned, one of the handle before one of the title,
\* and none is created
ExistingCollectionIsReturned ==
    (CollectionCall /\ ReviewCollections(shopify, brand_run.brand_name) # {}) =>
        /\ Len(shopify'.collections) = Len(shopify.collections)
        /\ CollectionReturned =>
               brand_run'.collection_id =
                   IF OfHandle(shopify, brand_run.brand_name) # {}
                   THEN First(OfHandle(shopify, brand_run.brand_name))
                   ELSE First(OfTitle(shopify, brand_run.brand_name))

\* a sink with at most one review collection of the brand has exactly one after
\* the call returned one
OneReviewCollection ==
    (CollectionReturned /\ Cardinality(ReviewCollections(shopify, brand_run.brand_name)) <= 1)
        => Cardinality(ReviewCollections(shopify', brand_run.brand_name)) = 1

ReturnedCollectionIsUnpublished ==
    CollectionReturned => ~shopify'.collections[brand_run'.collection_id].published

\* C26: get_or_create_collection is idempotent: when a collection with the
\* requested handle or title already exists it is returned and none is created (a
\* handle match takes precedence over a title match), so any number of runs of a
\* brand leave exactly one review collection for it, and the collection is
\* unpublished after each call.
C26_CollectionIsGotOrCreatedOnce ==
    [][/\ ExistingCollectionIsReturned
       /\ OneReviewCollection
       /\ ReturnedCollectionIsUnpublished]_vars

====
